---- MODULE Spec2Model ----
(***************************************************************************)
(* A model of the multi-agent search service: the TTL cache (cache.py),    *)
(* the /search handler (app.py), the orchestrator and its four agents      *)
(* (agents/*.py) and the metrics collector (metrics.py).                    *)
(*                                                                         *)
(* Time is the value datetime.now() returns, in seconds since start-up; it *)
(* only moves forward, in steps of TickSeconds.                            *)
(***************************************************************************)
EXTENDS Integers, Sequences, FiniteSets, TLC

VARIABLES
    now,        \* datetime.now(), seconds since the process started
    cache,      \* SearchCache.cache: key -> [value, expires_at, created_at]
    hits,       \* SearchCache.hits
    misses,     \* SearchCache.misses
    calls,      \* history: number of SearchCache calls made by the cache driver
    written,    \* history: key -> the last set(key, v) not followed by clear(): [value, at, found], or None
    lastOp,     \* history: the last SearchCache call: [op, key, at, ret]
    mIn,        \* the merge driver's input: [max_results, ddg, wiki]
    mOut,       \* the merge driver's output: Returned(the list search_parallel returns), or None
    ddgs_available,       \* search_executor.py: DDGS is not None
    wikipedia_available,  \* search_executor.py: wikipedia is not None
    loop,       \* the request whose code holds the event loop's thread, 0 when it is idle
    pc,         \* request -> where its /search handler stands
    request,    \* request -> its SearchRequest, None before it is issued
    src,        \* request -> source -> the state of its source call
    t0,         \* request -> start_time of its search_parallel
    results,    \* request -> Returned(search_results / analyzed_results), or None
    synthesis,  \* request -> the synthesis dict, or None
    response,   \* request -> what the client received, or None
    trace,      \* history: request -> the stage calls and returns, in order
    orch,       \* SearchOrchestrator: total_searches, successful_searches, failed_searches
    metrics,    \* MetricsCollector
    agent,      \* agent name -> the BaseAgent fields
    done,       \* history: key -> [at] of the last /search that computed and cached it, None after a clear
    expectHit,  \* history: request -> its key was computed less than ttl before it was issued
    stats       \* a call of SearchCache.get_stats: its position, its locals, and
                \* history: the (size, hits, misses) that held since it was called

cacheVars == <<cache, hits, misses>>
histVars == <<calls, written, lastOp>>
mergeVars == <<mIn, mOut>>
statVars == <<stats>>
envVars == <<ddgs_available, wikipedia_available>>
reqVars == <<pc, request, src, t0, results, synthesis, response, trace>>
sysVars == <<loop, orch, metrics, agent>>
svcHist == <<done, expectHit>>
svcVars == <<envVars, reqVars, sysVars, svcHist>>
vars == <<now, cacheVars, histVars, mergeVars, statVars, svcVars>>

----------------------------------------------------------------------------
(* Bounds of the model *)

MaxTicks == 2          \* the clock advances at most this many times
MaxCalls == 4          \* SearchCache calls made by the cache driver
MaxLimit == 2          \* the largest max_results the merge driver passes
MaxReq == 2            \* /search requests issued
MaxList == 3           \* the longest list the analyze driver passes
MaxRanked == 6         \* the longest list the rank driver passes
MaxWords == 7          \* the most words of a query the query driver passes
MaxRecorded == 102     \* record_search calls made by the metrics driver
MaxHistoryLimit == 3   \* the largest explicit limit the metrics driver asks for

(* Program constants *)

ttl_seconds == 3600    \* app.py: cache = SearchCache(ttl_seconds=3600)

TickSeconds == ttl_seconds \div 2

Queries == {"q1", "q2"}
MaxResultsValues == {1, 2}

\* Python's None
None == [kind |-> "None"]

\* app.py: cache_key = f"{request.query}:{request.max_results}". max_results is
\* an int, so the text after the last ':' determines it and the key determines
\* the pair: the key is modelled as the pair itself.
CacheKeyOf(query, max_results) == <<query, max_results>>

Keys == {CacheKeyOf(q, m) : q \in Queries, m \in MaxResultsValues}

\* Values the cache driver stores (SearchCache takes any dict)
Values == {[kind |-> "value", id |-> i] : i \in 1..2}

----------------------------------------------------------------------------
(* SearchCache, cache.py *)

Remove(f, k) == [x \in DOMAIN f \ {k} |-> f[x]]

Put_keep(f, k, v) == [x \in DOMAIN f \cup {k} |-> IF x \in DOMAIN f THEN f[x] ELSE v]

Put(f, k, v) == [x \in DOMAIN f \cup {k} |-> IF x = k THEN v ELSE f[x]]

\* get: the test `datetime.now() < entry['expires_at']`
NotExpired_le(entry) == now <= entry.expires_at

NotExpired(entry) == now < entry.expires_at

\* get: the value returned, None for a miss
get_return(key) ==
    IF key \in DOMAIN cache /\ NotExpired(cache[key])
    THEN cache[key].value
    ELSE None

\* get: the store it leaves (an expired entry is deleted)
get_store(key) ==
    IF key \in DOMAIN cache /\ ~NotExpired(cache[key])
    THEN Remove(cache, key)
    ELSE cache

get_uncounted_expiry(key) ==
    /\ cache' = get_store(key)
    /\ IF key \in DOMAIN cache
       THEN IF NotExpired(cache[key])
            THEN hits' = hits + 1 /\ UNCHANGED misses
            ELSE UNCHANGED <<hits, misses>>
       ELSE misses' = misses + 1 /\ UNCHANGED hits

\* get: the effect on the store and the counters
get(key) ==
    /\ cache' = get_store(key)
    /\ IF key \in DOMAIN cache /\ NotExpired(cache[key])
       THEN hits' = hits + 1 /\ UNCHANGED misses
       ELSE misses' = misses + 1 /\ UNCHANGED hits

\* set: the entry stored
NewEntry_stale(value) ==
    [value |-> value, expires_at |-> now, created_at |-> now]

NewEntry(value) ==
    [value |-> value, expires_at |-> now + ttl_seconds, created_at |-> now]

set_if_absent(key, value) ==
    /\ cache' = IF key \in DOMAIN cache THEN cache ELSE Put(cache, key, NewEntry(value))
    /\ UNCHANGED <<hits, misses>>

set(key, value) ==
    /\ cache' = Put(cache, key, NewEntry(value))
    /\ UNCHANGED <<hits, misses>>

\* clear: returns the number of entries removed
clear_return_live == Cardinality({k \in DOMAIN cache : now < cache[k].expires_at})

clear_return == Cardinality(DOMAIN cache)

clear ==
    /\ cache' = [x \in {} |-> None]
    /\ UNCHANGED <<hits, misses>>

\* _clean_expired: the keys kept (those with not now >= expires_at)
CleanExpired_gt(c) ==
    LET keep == {k \in DOMAIN c : ~(now > c[k].expires_at)}
    IN  [k \in keep |-> c[k]]

CleanExpired(c) ==
    LET keep == {k \in DOMAIN c : ~(now >= c[k].expires_at)}
    IN  [k \in keep |-> c[k]]

size_return == Cardinality(DOMAIN CleanExpired(cache))

size ==
    /\ cache' = CleanExpired(cache)
    /\ UNCHANGED <<hits, misses>>

\* no call of get_stats is running
StatsIdle ==
    [pc |-> "idle", hits_read |-> 0, total_requests |-> 0, hit_rate |-> 0,
     size |-> 0, hits |-> 0, misses |-> 0, seen |-> {}]

----------------------------------------------------------------------------
(* SearchExecutorAgent, agents/search_executor.py: the pure part *)

Min(a, b) == IF a < b THEN a ELSE b

\* A result as a source call builds it (the dict of _search_duckduckgo and
\* _search_wikipedia); title and snippet are carried as one text id.
RawResult(url, source, position, text) ==
    [url |-> url, source |-> source, position |-> position,
     text |-> text, relevance_score |-> 0]

\* What asyncio.gather(..., return_exceptions=True) holds for one task
ListOutcome(items) == [kind |-> "list", items |-> items]

\* What a source library hands back to its source call: the hits of
\* DDGS().text(query, max_results=limit), at most limit of them, or a raise
Urls == {"", "a", "b"}

Hit(url) == [url |-> url, text |-> "t"]

SeqsUpTo(S, n) == UNION {[1..k -> S] : k \in 0..n}

Raises == [kind |-> "raise"]

DdgReplies(limit) ==
    {[kind |-> "ok", items |-> h] : h \in SeqsUpTo({Hit(u) : u \in Urls}, limit)}
    \cup {Raises}

\* wikipedia.search(query, results=min(limit, 5)): the titles; for each title
\* wikipedia.summary/page either give the page (page.url is never empty) or raise
WikiLimit == 5

WikiReplies(limit) ==
    {[kind |-> "ok", items |-> h] :
        h \in SeqsUpTo({[url |-> u, text |-> "t", ok |-> b] :
                            u \in Urls \ {""}, b \in BOOLEAN},
                       Min(limit, WikiLimit))}
    \cup {Raises}

\* _search_duckduckgo: the list the coroutine returns, [] when the library raised
_search_duckduckgo_partial(reply) ==
    IF reply.kind = "raise" THEN <<RawResult("err", "duckduckgo", 1, "t")>>
    ELSE [i \in 1..Len(reply.items) |->
            RawResult(reply.items[i].url, "duckduckgo", i, reply.items[i].text)]

_search_duckduckgo(reply) ==
    IF reply.kind = "raise" THEN <<>>
    ELSE [i \in 1..Len(reply.items) |->
            RawResult(reply.items[i].url, "duckduckgo", i, reply.items[i].text)]

\* _search_wikipedia: pages that raise are skipped, position is idx + 1
RECURSIVE WikiPages(_, _)
WikiPages(pages, i) ==
    IF i > Len(pages) THEN <<>>
    ELSE (IF pages[i].ok
          THEN <<RawResult(pages[i].url, "wikipedia", i, pages[i].text)>>
          ELSE <<>>) \o WikiPages(pages, i + 1)

_search_wikipedia(reply) ==
    IF reply.kind = "raise" THEN <<>> ELSE WikiPages(reply.items, 1)

\* _merge_results, first loop: merged.extend(results) for every outcome that
\* is a list, exceptions skipped
RECURSIVE Extend(_, _)
Extend(results_list, i) ==
    IF i > Len(results_list) THEN <<>>
    ELSE (IF results_list[i].kind = "list" THEN results_list[i].items ELSE <<>>)
         \o Extend(results_list, i + 1)

\* _merge_results, second loop: `if url and url not in seen_urls`
RECURSIVE UniqueLoop_noseen(_, _, _)
UniqueLoop_noseen(merged, i, seen) ==
    IF i > Len(merged) THEN <<>>
    ELSE IF merged[i].url # ""
         THEN <<merged[i]>> \o UniqueLoop_noseen(merged, i + 1, seen)
         ELSE UniqueLoop_noseen(merged, i + 1, seen)

RECURSIVE UniqueLoop(_, _, _)
UniqueLoop(merged, i, seen) ==
    IF i > Len(merged) THEN <<>>
    ELSE IF merged[i].url # "" /\ merged[i].url \notin seen
         THEN <<merged[i]>> \o UniqueLoop(merged, i + 1, seen \cup {merged[i].url})
         ELSE UniqueLoop(merged, i + 1, seen)

_merge_results(results_list) == UniqueLoop(Extend(results_list, 1), 1, {})

\* search_parallel: merged_results[:max_results] (max_results >= 1)
Truncate_none(list, max_results) == list

Truncate(list, max_results) ==
    SubSeq(list, 1, Min(Len(list), max_results))

\* search_parallel: the metadata written into every returned result
WithMetadata(list, at, ms) ==
    [i \in 1..Len(list) |->
        [retrieved_at |-> at, search_execution_time_ms |-> ms] @@ list[i]]

\* search_parallel from the join on: merge, truncate, add the metadata
RetrieverOutput(results_list, max_results, at, ms) ==
    WithMetadata(Truncate(_merge_results(results_list), max_results), at, ms)

\* The dict a source call built, read back from a returned result
RawOf(r) == RawResult(r.url, r.source, r.position, r.text)

----------------------------------------------------------------------------
(* BaseAgent, agents/base_agent.py, and MetricsCollector, metrics.py *)

QueryProcessor == "QueryProcessorAgent"
SearchExecutor == "SearchExecutorAgent"
Analysis == "AnalysisAgent"
Synthesis == "SynthesisAgent"
Agents == {QueryProcessor, SearchExecutor, Analysis, Synthesis}

\* (time.time() - start_time) * 1000
ElapsedMs(start_time) == (now - start_time) * 1000

\* BaseAgent.__init__ followed by initialize() (app.py, startup_event)
NewAgent ==
    [status |-> "ready", tasks_completed |-> 0, total_execution_time |-> 0,
     last_active |-> None]

start_task(ag, name) ==
    [ag EXCEPT ![name].status = "working", ![name].last_active = [at |-> now]]

end_task(ag, name, ms) ==
    [ag EXCEPT ![name].tasks_completed = @ + 1,
               ![name].total_execution_time = @ + ms,
               ![name].status = "ready",
               ![name].last_active = [at |-> now]]

\* the agents' `except Exception: self.status = 'error'`
task_error(ag, name) == [ag EXCEPT ![name].status = "error"]

HistoryMaxLen == 100   \* metrics.py: deque(maxlen=100)

\* the lock MetricsCollector creates and its methods hold: __init__ creates
\* none, and no method takes one
metrics_lock == None

NewMetrics ==
    [total_searches |-> 0, search_history |-> <<>>, error_count |-> 0,
     agent_executions |-> [a \in Agents |-> <<>>]]

\* deque.append with maxlen: the oldest entry is dropped when full
DequeAppend_dropnew(d, x) == IF Len(d) >= HistoryMaxLen THEN d ELSE d \o <<x>>

DequeAppend(d, x) ==
    IF Len(d) >= HistoryMaxLen THEN Tail(d) \o <<x>> ELSE d \o <<x>>

record_search(m, query) ==
    [m EXCEPT !.total_searches = @ + 1,
              !.search_history = DequeAppend(@, [query |-> query, timestamp |-> now])]

\* get_search_history(limit = 20)
DefaultLimit == 20

\* list(self.search_history)[-limit:]: the slice starts limit places before
\* the end when limit > 0 (at the front when the list is shorter), and -limit
\* places after the front otherwise, so that [-0:] is the whole list
get_search_history(m, limit) ==
    LET history == m.search_history
        start == IF limit > 0
                 THEN IF Len(history) > limit THEN Len(history) - limit ELSE 0
                 ELSE Min(0 - limit, Len(history))
    IN  SubSeq(history, start + 1, Len(history))

record_agent_execution(m, name, ms) ==
    [m EXCEPT !.agent_executions[name] =
                  @ \o <<[execution_time_ms |-> ms, timestamp |-> now]>>]

----------------------------------------------------------------------------
(* AnalysisAgent, agents/analysis_agent.py. Scores are in thousandths. *)

\* round(n / d) to the nearest integer, ties to even (Python's round)
RoundDiv(n, d) ==
    LET q == n \div d
        r == n % d
    IN  IF 2 * r < d THEN q
        ELSE IF 2 * r > d THEN q + 1
        ELSE IF q % 2 = 0 THEN q ELSE q + 1

\* source_authority, with its 'default'
Authority(source) ==
    IF source = "wikipedia" THEN 900
    ELSE IF source = "duckduckgo" THEN 700
    ELSE 500

\* max(0, 1.0 - (position - 1) * 0.1)
PositionScore_linear(position) == 1000 - (position - 1) * 100

PositionScore(position) ==
    IF 1000 - (position - 1) * 100 > 0 THEN 1000 - (position - 1) * 100 ELSE 0

\* The texts of a result, told apart by what _text_relevance finds in them for
\* the request's query and its keywords: "t" holds the query and so every
\* keyword, "k" holds one keyword but not the query, "x" holds neither and ""
\* is the missing title or snippet.
KeywordCount == 2

QueryIn(text) == text = "t"

KeywordMatches(text) ==
    IF text = "t" THEN KeywordCount ELSE IF text = "k" THEN 1 ELSE 0

\* _text_relevance: 0 for an empty text, else
\* min(0.5 [query in text] + 0.5 * keyword_matches / len(keywords), 1.0)
TextRelevance(text) ==
    IF text = "" THEN 0
    ELSE Min((IF QueryIn(text) THEN 500 ELSE 0)
             + (IF KeywordCount > 0
                THEN (500 * KeywordMatches(text)) \div KeywordCount ELSE 0),
             1000)

\* _calculate_relevance: round(0.4 title + 0.3 snippet + 0.2 authority + 0.1 position, 3)
_calculate_relevance(result) ==
    RoundDiv(400 * TextRelevance(result.text) + 300 * TextRelevance(result.text)
             + 200 * Authority(result.source) + 100 * PositionScore(result.position),
             1000)

\* results.sort(key=relevance_score, reverse=True): stable, so an element goes
\* after every element whose score is at least its own
RECURSIVE InsertDesc_ahead(_, _)
InsertDesc_ahead(sorted, x) ==
    IF sorted = <<>> THEN <<x>>
    ELSE IF Head(sorted).relevance_score > x.relevance_score
         THEN <<Head(sorted)>> \o InsertDesc_ahead(Tail(sorted), x)
         ELSE <<x>> \o sorted

RECURSIVE InsertDesc(_, _)
InsertDesc(sorted, x) ==
    IF sorted = <<>> THEN <<x>>
    ELSE IF Head(sorted).relevance_score >= x.relevance_score
         THEN <<Head(sorted)>> \o InsertDesc(Tail(sorted), x)
         ELSE <<x>> \o sorted

RECURSIVE SortDesc(_)
SortDesc(list) ==
    IF list = <<>> THEN <<>>
    ELSE InsertDesc(SortDesc(SubSeq(list, 1, Len(list) - 1)), list[Len(list)])

analyze_unsorted(list) ==
    [i \in 1..Len(list) |->
        [rank |-> i]
        @@ [list[i] EXCEPT !.relevance_score = _calculate_relevance(list[i])]]

\* analyze on a non-empty list: score, sort, rank
analyze(list) ==
    LET scored == [i \in 1..Len(list) |->
                      [list[i] EXCEPT !.relevance_score = _calculate_relevance(list[i])]]
        sorted == SortDesc(scored)
    IN  [i \in 1..Len(sorted) |-> [rank |-> i] @@ sorted[i]]

----------------------------------------------------------------------------
(* SynthesisAgent, agents/synthesis_agent.py *)

Take(list, n) == SubSeq(list, 1, Min(Len(list), n))

RECURSIVE SumScores(_)
SumScores(list) ==
    IF list = <<>> THEN 0 ELSE Head(list).relevance_score + SumScores(Tail(list))

\* _extract_key_points: the titles of the top 3 that have one
RECURSIVE Titles(_)
Titles(list) ==
    IF list = <<>> THEN <<>>
    ELSE (IF Head(list).text # "" THEN <<Head(list).text>> ELSE <<>>)
         \o Titles(Tail(list))

_extract_key_points(top) ==
    IF Titles(Take(top, 3)) # <<>> THEN Titles(Take(top, 3))
    ELSE <<"See search results for detailed information">>

\* _calculate_confidence, in hundredths:
\* round(0.7 * avg(top 3 scores) + 0.3 * min(quality / 5, 1), 2)
_calculate_confidence(list) ==
    IF list = <<>> THEN 0
    ELSE LET top_3 == Take(list, 3)
             quality == Cardinality({i \in 1..Len(list) : list[i].relevance_score > 500})
         IN  RoundDiv(7 * SumScores(top_3) + 600 * Len(top_3) * Min(quality, 5),
                      100 * Len(top_3))

_get_sources_breakdown(top) ==
    LET used == {top[i].source : i \in 1..Len(top)}
    IN  [s \in used |-> Cardinality({i \in 1..Len(top) : top[i].source = s})]

\* _empty_synthesis: the fixed result for no input
_empty_synthesis ==
    [kind |-> "synthesis",
     key_points |-> <<>>,
     confidence |-> 0,
     sources_used |-> [s \in {} |-> 0],
     results_synthesized |-> 0,
     synthesis_time_ms |-> 0]

synthesize_unguarded(list, ms) ==
    [kind |-> "synthesis",
     key_points |-> _extract_key_points(Take(list, 5)),
     confidence |-> _calculate_confidence(list),
     sources_used |-> _get_sources_breakdown(Take(list, 5)),
     results_synthesized |-> Len(Take(list, 5)),
     synthesis_time_ms |-> ms]

\* synthesize: the empty result for no input, else the synthesis of the top 5
synthesize(list, ms) ==
    IF list = <<>> THEN _empty_synthesis
    ELSE
    LET top_results == Take(list, 5)
    IN  [kind |-> "synthesis",
         key_points |-> _extract_key_points(top_results),
         confidence |-> _calculate_confidence(list),
         sources_used |-> _get_sources_breakdown(top_results),
         results_synthesized |-> Len(top_results),
         synthesis_time_ms |-> ms]

----------------------------------------------------------------------------
(* QueryProcessorAgent, agents/query_processor.py. A text is the sequence   *)
(* of its characters, so that lower, strip, split, the regular expressions  *)
(* and the substring test `in` are computed as Python computes them.        *)

Whitespace == {" ", "\t", "\n"}

\* \w for the text str.lower() leaves
WordChars ==
    {"a", "b", "c", "d", "e", "f", "g", "h", "i", "j", "k", "l", "m", "n", "o",
     "p", "q", "r", "s", "t", "u", "v", "w", "x", "y", "z",
     "0", "1", "2", "3", "4", "5", "6", "7", "8", "9", "_"}

\* str.lower() of one character, over the upper-case letters queries are
\* given here
Lower(c) == IF c = "W" THEN "w" ELSE IF c = "R" THEN "r" ELSE c

LowerAll(text) == [i \in 1..Len(text) |-> Lower(text[i])]

RECURSIVE LStrip(_)
LStrip(text) ==
    IF text # <<>> /\ Head(text) \in Whitespace THEN LStrip(Tail(text)) ELSE text

RECURSIVE RStrip(_)
RStrip(text) ==
    IF text # <<>> /\ text[Len(text)] \in Whitespace
    THEN RStrip(SubSeq(text, 1, Len(text) - 1)) ELSE text

\* str.strip()
Strip(text) == RStrip(LStrip(text))

\* re.sub(r'\s+', ' ', text)
RECURSIVE CollapseSpaces(_)
CollapseSpaces(text) ==
    IF text = <<>> THEN <<>>
    ELSE IF Head(text) \in Whitespace THEN <<" ">> \o CollapseSpaces(LStrip(text))
    ELSE <<Head(text)>> \o CollapseSpaces(Tail(text))

\* re.sub(r'[^\w\s\-\?]', '', text)
RemoveSpecial(text) ==
    SelectSeq(text, LAMBDA c : c \in WordChars \cup Whitespace \cup {"-", "?"})

_normalize_query(query) == RemoveSpecial(CollapseSpaces(Strip(LowerAll(query))))

\* str.split(): the maximal runs of non-whitespace characters
RECURSIVE SplitFrom(_, _)
SplitFrom(text, word) ==
    IF text = <<>> THEN (IF word = <<>> THEN <<>> ELSE <<word>>)
    ELSE IF Head(text) \in Whitespace
         THEN (IF word = <<>> THEN <<>> ELSE <<word>>) \o SplitFrom(Tail(text), <<>>)
         ELSE SplitFrom(Tail(text), Append(word, Head(text)))

Split(text) == SplitFrom(text, <<>>)

\* ' '.join(words)
RECURSIVE SpaceJoin(_)
SpaceJoin(words) ==
    IF words = <<>> THEN <<>>
    ELSE IF Len(words) = 1 THEN words[1]
    ELSE words[1] \o <<" ">> \o SpaceJoin(Tail(words))

\* part in text
Contains(text, part) ==
    \E i \in 0..(Len(text) - Len(part)) : SubSeq(text, i + 1, i + Len(part)) = part

question_words ==
    (<<"w", "h", "a", "t">> :> "definition")
    @@ (<<"w", "h", "o">> :> "person")
    @@ (<<"w", "h", "e", "n">> :> "time")
    @@ (<<"w", "h", "e", "r", "e">> :> "location")
    @@ (<<"w", "h", "y">> :> "reason")
    @@ (<<"h", "o", "w">> :> "process")

stop_words ==
    {<<"a">>, <<"a", "n">>, <<"t", "h", "e">>, <<"i", "s">>, <<"a", "r", "e">>,
     <<"w", "a", "s">>, <<"w", "e", "r", "e">>, <<"b", "e">>, <<"b", "e", "e", "n">>,
     <<"i", "n">>, <<"o", "n">>, <<"a", "t">>, <<"t", "o">>, <<"f", "o", "r">>,
     <<"o", "f">>, <<"w", "i", "t", "h">>, <<"b", "y">>}

_extract_intent_patterns_first(query) ==
    IF Split(query) = <<>> THEN "unknown"
    ELSE IF Contains(query, <<"h", "o", "w", " ", "t", "o">>)
            \/ Contains(query, <<"h", "o", "w", " ", "d", "o">>) THEN "tutorial"
    ELSE IF Contains(query, <<"b", "e", "s", "t">>)
            \/ Contains(query, <<"t", "o", "p">>) THEN "recommendation"
    ELSE IF LowerAll(Split(query)[1]) \in DOMAIN question_words
         THEN question_words[LowerAll(Split(query)[1])]
    ELSE "general"

_extract_intent(query) ==
    LET words == Split(query)
    IN  IF words = <<>> THEN "unknown"
        ELSE IF LowerAll(words[1]) \in DOMAIN question_words
             THEN question_words[LowerAll(words[1])]
        ELSE IF Contains(query, <<"h", "o", "w", " ", "t", "o">>)
                \/ Contains(query, <<"h", "o", "w", " ", "d", "o">>) THEN "tutorial"
        ELSE IF Contains(query, <<"b", "e", "s", "t">>)
                \/ Contains(query, <<"t", "o", "p">>) THEN "recommendation"
        ELSE IF Contains(query, <<"c", "o", "m", "p", "a", "r", "e">>)
                \/ Contains(query, <<"v", "s">>)
                \/ Contains(query, <<"v", "e", "r", "s", "u", "s">>) THEN "comparison"
        ELSE IF Contains(query, <<"r", "e", "v", "i", "e", "w">>) THEN "review"
        ELSE "general"

\* the words that are no stop word and longer than 2, the first 5 of them
_extract_keywords(query) ==
    Take(SelectSeq(Split(query), LAMBDA word : word \notin stop_words /\ Len(word) > 2), 5)

\* the `seen` loop: each variation once, at its first place
RECURSIVE UniqueVariations(_, _)
UniqueVariations(variations, seen) ==
    IF variations = <<>> THEN <<>>
    ELSE IF Head(variations) \in seen THEN UniqueVariations(Tail(variations), seen)
    ELSE <<Head(variations)>>
         \o UniqueVariations(Tail(variations), seen \cup {Head(variations)})

_generate_variations_nokeywords(query, keywords) ==
    LET variations ==
            <<query>>
            \o (IF Len(Split(query)) >= 2 THEN <<<<"\"">> \o query \o <<"\"">>>> ELSE <<>>)
            \o <<query \o <<" ", "t", "u", "t", "o", "r", "i", "a", "l">>>>
            \o <<query \o <<" ", "g", "u", "i", "d", "e">>>>
    IN  Take(UniqueVariations(variations, {}), 3)

_generate_variations(query, keywords) ==
    LET variations ==
            <<query>>
            \o (IF Len(keywords) >= 2 THEN <<SpaceJoin(keywords)>> ELSE <<>>)
            \o (IF Len(Split(query)) >= 2 THEN <<<<"\"">> \o query \o <<"\"">>>> ELSE <<>>)
            \o <<query \o <<" ", "t", "u", "t", "o", "r", "i", "a", "l">>>>
            \o <<query \o <<" ", "g", "u", "i", "d", "e">>>>
    IN  Take(UniqueVariations(variations, {}), 3)

\* process: the result dict
process(query) ==
    LET normalized == _normalize_query(query)
        keywords == _extract_keywords(normalized)
    IN  [original_query |-> query,
         normalized_query |-> normalized,
         intent |-> _extract_intent(normalized),
         keywords |-> keywords,
         variations |-> _generate_variations(normalized, keywords),
         query_length |-> Len(Split(query))]

----------------------------------------------------------------------------
(* The service: POST /search (app.py, search) through the orchestrator      *)
(* (agents/orchestrator.py, execute_search).                                *)
(*                                                                          *)
(* The handlers are coroutines of one event loop: a handler runs until it    *)
(* awaits something that is not ready, and the only such await is           *)
(* asyncio.gather over the source tasks. loop names the request whose code   *)
(* is running; the source calls are synchronous library calls, so a call     *)
(* that does not return keeps the loop.                                      *)

Reqs == 1..MaxReq

Sources == {"duckduckgo", "wikipedia"}

SourceList(items) == [kind |-> "list", items |-> items]

\* SearchRequest.sources: None or a list of names
SourcesValues == {None, SourceList(<<>>)}

\* The requests the model issues
Requests ==
    [query : Queries, max_results : {2}, enable_analysis : BOOLEAN,
     include_synthesis : BOOLEAN, sources : SourcesValues]

\* The queries are named in the order they are first asked
RequestsOf(r) == {rq \in Requests : r = 1 => rq.query = "q1"}

\* search_parallel: `if sources is None: sources = ['duckduckgo', 'wikipedia']`
Selected_sources(rq) ==
    IF rq.sources = None THEN <<"duckduckgo", "wikipedia">> ELSE rq.sources.items

InList(x, list) == \E i \in 1..Len(list) : list[i] = x

\* search_parallel: the tasks created, in order
Tasks(rq) ==
    (IF InList("duckduckgo", Selected_sources(rq)) /\ ddgs_available
     THEN <<"duckduckgo">> ELSE <<>>)
    \o (IF InList("wikipedia", Selected_sources(rq)) /\ wikipedia_available
        THEN <<"wikipedia">> ELSE <<>>)

NotLaunched == [kind |-> "not launched"]

Returned(list) == [kind |-> "returned", results |-> list]

Pending == [kind |-> "pending"]
Hung == [kind |-> "hung"]
Hangs == [kind |-> "hang"]

\* The replies the model's source libraries give
ServiceHits == {<<>>, <<Hit("a"), Hit("b")>>}
ServicePages == {<<[url |-> "a", text |-> "t", ok |-> TRUE]>>}

Replies(source) ==
    {[kind |-> "ok", items |-> h] :
        h \in IF source = "duckduckgo" THEN ServiceHits ELSE ServicePages}
    \cup {Raises, Hangs}

\* what the coroutine of a source returns for a reply of its library
SourceReturn(source, reply) ==
    IF source = "duckduckgo" THEN _search_duckduckgo(reply)
    ELSE _search_wikipedia(reply)

\* the result asyncio.gather holds for a task that ended: the list the
\* coroutine returned; raised remembers that the library raised inside it
TaskResult(source, reply) ==
    [kind |-> "list", items |-> SourceReturn(source, reply),
     raised |-> reply.kind = "raise"]

\* asyncio.gather: done when every task it was given has a result
GatherDone_any(r) ==
    \E s \in Sources : src[r][s].kind = "list"

GatherDone(r) ==
    \A s \in Sources : src[r][s].kind \in {"not launched", "list"}

\* asyncio.gather: the results, in the order of the tasks; a task without a
\* result yet has none to give
GatherResultsOf(r) ==
    LET one(s) == IF src[r][s].kind = "list" THEN <<src[r][s]>> ELSE <<>>
    IN  one("duckduckgo") \o one("wikipedia")

Event(ev, stage) == [ev |-> ev, stage |-> stage]

\* app.py: `if cached_result:` (a response dict is never empty)
Truthy(v) == v # None

\* app.py: cached_result['cached'] = True; ...['agent_metrics']['cache_hit'] = True
HitResponse_unmarked(v) == v

HitResponse(v) == [v EXCEPT !.cached = TRUE, !.agent_metrics.cache_hit = TRUE]

\* orchestrator.py, _get_agents_used
_get_agents_used(enable_analysis, include_synthesis) ==
    <<"QueryProcessor", "SearchExecutor">>
    \o (IF enable_analysis THEN <<"AnalysisAgent">> ELSE <<>>)
    \o (IF include_synthesis THEN <<"SynthesisAgent">> ELSE <<>>)

\* orchestrator.py: `if enable_analysis and search_results`
ShouldAnalyze(r) ==
    request[r].enable_analysis /\ results[r].results # <<>>

\* orchestrator.py: `if include_synthesis and analyzed_results`
ShouldSynthesize_always(r) == request[r].include_synthesis

ShouldSynthesize(r) ==
    request[r].include_synthesis /\ results[r].results # <<>>

Error500 == [kind |-> "error", status_code |-> 500]

\* execute_search's `except Exception` followed by search's: the failure is
\* counted and the client gets HTTP 500
\* The handler returns: its locals are gone
Release(r) ==
    /\ src' = [src EXCEPT ![r] = [s \in Sources |-> NotLaunched]]
    /\ t0' = [t0 EXCEPT ![r] = 0]
    /\ results' = [results EXCEPT ![r] = None]
    /\ synthesis' = [synthesis EXCEPT ![r] = None]

Abort_caching(r) ==
    /\ orch' = [orch EXCEPT !.failed_searches = @ + 1]
    /\ response' = [response EXCEPT ![r] = Error500]
    /\ set(CacheKeyOf(request[r].query, request[r].max_results), Error500)
    /\ pc' = [pc EXCEPT ![r] = "failed"]
    /\ loop' = 0
    /\ Release(r)

Abort_uncounted(r) ==
    /\ UNCHANGED <<orch, cacheVars>>
    /\ response' = [response EXCEPT ![r] = Error500]
    /\ pc' = [pc EXCEPT ![r] = "failed"]
    /\ loop' = 0
    /\ Release(r)

Abort(r) ==
    /\ orch' = [orch EXCEPT !.failed_searches = @ + 1]
    /\ UNCHANGED cacheVars
    /\ response' = [response EXCEPT ![r] = Error500]
    /\ pc' = [pc EXCEPT ![r] = "failed"]
    /\ loop' = 0
    /\ Release(r)

\* search: the cache lookup, and the answer from the cache on a hit
Issue(r, rq) ==
    /\ loop = 0
    /\ pc[r] = "idle"
    /\ r > 1 => pc[r - 1] # "idle"
    /\ request' = [request EXCEPT ![r] = rq]
    /\ LET key == CacheKeyOf(rq.query, rq.max_results)
           cached_result == get_return(key)
       IN  /\ expectHit' = [expectHit EXCEPT ![r] =
                               /\ done[key] # None
                               /\ now < done[key].at + ttl_seconds]
           /\ IF Truthy(cached_result)
              THEN /\ cache' = [get_store(key) EXCEPT
                                   ![key].value = HitResponse(cached_result)]
                   /\ hits' = hits + 1
                   /\ response' = [response EXCEPT ![r] = HitResponse(cached_result)]
                   /\ pc' = [pc EXCEPT ![r] = "served"]
                   /\ UNCHANGED <<misses, loop>>
              ELSE /\ get(key)
                   /\ pc' = [pc EXCEPT ![r] = "received"]
                   /\ loop' = r
                   /\ UNCHANGED response
    /\ UNCHANGED <<now, histVars, mergeVars, statVars, envVars, src, t0, results, synthesis,
                   trace, orch, metrics, agent, done>>

\* execute_search: total_searches += 1; metrics.record_search(query)
OrchStart(r) ==
    /\ loop = r
    /\ pc[r] = "received"
    /\ orch' = [orch EXCEPT !.total_searches = @ + 1]
    /\ metrics' = record_search(metrics, request[r].query)
    /\ pc' = [pc EXCEPT ![r] = "normalizing"]
    /\ UNCHANGED <<now, cacheVars, histVars, mergeVars, statVars, envVars, request, src, t0,
                   results, synthesis, response, trace, loop, agent, svcHist>>

\* query_processor.process; raises stands for an exception in the stage
Normalize(r, raises) ==
    /\ loop = r
    /\ pc[r] = "normalizing"
    /\ IF raises
       THEN /\ agent' = task_error(start_task(agent, QueryProcessor), QueryProcessor)
            /\ trace' = [trace EXCEPT ![r] = @ \o <<Event("call", QueryProcessor),
                                                   Event("raise", QueryProcessor)>>]
            /\ Abort(r)
            /\ UNCHANGED metrics
       ELSE /\ agent' = end_task(start_task(agent, QueryProcessor), QueryProcessor, 0)
            /\ metrics' = record_agent_execution(metrics, QueryProcessor, 0)
            /\ trace' = [trace EXCEPT ![r] = @ \o <<Event("call", QueryProcessor),
                                                   Event("return", QueryProcessor)>>]
            /\ pc' = [pc EXCEPT ![r] = "retrieving"]
            /\ UNCHANGED <<orch, response, loop, src, t0, results, synthesis, cacheVars>>
    /\ UNCHANGED <<now, histVars, mergeVars, statVars, envVars, request, svcHist>>

\* search_parallel up to `await asyncio.gather(*tasks, ...)`. With no task,
\* gather([]) is done at once and the coroutine goes on to the end.
Launch(r) ==
    /\ loop = r
    /\ pc[r] = "retrieving"
    /\ IF Tasks(request[r]) = <<>>
       THEN /\ results' = [results EXCEPT ![r] =
                   Returned(RetrieverOutput(<<>>, request[r].max_results, now, 0))]
            /\ agent' = end_task(start_task(agent, SearchExecutor), SearchExecutor, 0)
            /\ metrics' = record_agent_execution(metrics, SearchExecutor, 0)
            /\ trace' = [trace EXCEPT ![r] = @ \o <<Event("call", SearchExecutor),
                                                   Event("return", SearchExecutor)>>]
            /\ pc' = [pc EXCEPT ![r] = "scoring"]
            /\ UNCHANGED <<src, t0, loop>>
       ELSE /\ src' = [src EXCEPT ![r] =
                   [s \in Sources |->
                       IF InList(s, Tasks(request[r])) THEN Pending ELSE NotLaunched]]
            /\ t0' = [t0 EXCEPT ![r] = now]
            /\ agent' = start_task(agent, SearchExecutor)
            /\ trace' = [trace EXCEPT ![r] = @ \o <<Event("call", SearchExecutor)>>]
            /\ pc' = [pc EXCEPT ![r] = "gathering"]
            /\ loop' = 0
            /\ UNCHANGED <<results, metrics>>
    /\ UNCHANGED <<now, cacheVars, histVars, mergeVars, statVars, envVars, request, synthesis,
                   response, orch, svcHist>>

\* One source task runs: _search_duckduckgo or _search_wikipedia, from its
\* library call to its return. The tasks of a request run in the order they
\* were created. A library call that never returns keeps the thread of the
\* loop: search_timeout is set in __init__ and used nowhere.
SourceCall(r, s, reply) ==
    /\ loop = 0
    /\ pc[r] = "gathering"
    /\ src[r][s] = Pending
    /\ s = "wikipedia" => src[r]["duckduckgo"] # Pending
    /\ IF reply = Hangs
       THEN /\ src' = [src EXCEPT ![r][s] = Hung]
            /\ loop' = r
       ELSE /\ src' = [src EXCEPT ![r][s] = TaskResult(s, reply)]
            /\ UNCHANGED loop
    /\ UNCHANGED <<now, cacheVars, histVars, mergeVars, statVars, envVars, pc, request, t0,
                   results, synthesis, response, trace, orch, metrics, agent, svcHist>>

\* search_parallel after the gather: merge, truncate, end_task, metadata
Join(r) ==
    /\ loop = 0
    /\ pc[r] = "gathering"
    /\ GatherDone(r)
    /\ results' = [results EXCEPT ![r] =
           Returned(RetrieverOutput(GatherResultsOf(r), request[r].max_results,
                                    now, ElapsedMs(t0[r])))]
    /\ agent' = end_task(agent, SearchExecutor, ElapsedMs(t0[r]))
    /\ metrics' = record_agent_execution(metrics, SearchExecutor, ElapsedMs(t0[r]))
    /\ trace' = [trace EXCEPT ![r] = @ \o <<Event("return", SearchExecutor)>>]
    /\ pc' = [pc EXCEPT ![r] = "scoring"]
    /\ loop' = r
    /\ UNCHANGED <<now, cacheVars, histVars, mergeVars, statVars, envVars, request, src, t0,
                   synthesis, response, orch, svcHist>>

\* analysis_agent.analyze, called when analysis is enabled and there are results
Analyze(r, raises) ==
    /\ loop = r
    /\ pc[r] = "scoring"
    /\ ShouldAnalyze(r)
    /\ IF raises
       THEN /\ agent' = task_error(start_task(agent, Analysis), Analysis)
            /\ trace' = [trace EXCEPT ![r] = @ \o <<Event("call", Analysis),
                                                   Event("raise", Analysis)>>]
            /\ Abort(r)
            /\ UNCHANGED metrics
       ELSE /\ results' = [results EXCEPT ![r] = Returned(analyze(@.results))]
            /\ agent' = end_task(start_task(agent, Analysis), Analysis, 0)
            /\ metrics' = record_agent_execution(metrics, Analysis, 0)
            /\ trace' = [trace EXCEPT ![r] = @ \o <<Event("call", Analysis),
                                                   Event("return", Analysis)>>]
            /\ pc' = [pc EXCEPT ![r] = "synthesizing"]
            /\ UNCHANGED <<orch, response, loop, src, t0, synthesis, cacheVars>>
    /\ UNCHANGED <<now, histVars, mergeVars, statVars, envVars, request, svcHist>>

\* the else branch: analyzed_results = search_results
SkipAnalysis(r) ==
    /\ loop = r
    /\ pc[r] = "scoring"
    /\ ~ShouldAnalyze(r)
    /\ pc' = [pc EXCEPT ![r] = "synthesizing"]
    /\ UNCHANGED <<now, cacheVars, histVars, mergeVars, statVars, envVars, request, src, t0,
                   results, synthesis, response, trace, sysVars, svcHist>>

\* synthesis_agent.synthesize, called when synthesis is asked for and there are results
Synthesize(r, raises) ==
    /\ loop = r
    /\ pc[r] = "synthesizing"
    /\ ShouldSynthesize(r)
    /\ IF raises
       THEN /\ agent' = task_error(start_task(agent, Synthesis), Synthesis)
            /\ trace' = [trace EXCEPT ![r] = @ \o <<Event("call", Synthesis),
                                                   Event("raise", Synthesis)>>]
            /\ Abort(r)
            /\ UNCHANGED metrics
       ELSE /\ synthesis' = [synthesis EXCEPT ![r] = synthesize(results[r].results, 0)]
            /\ agent' = end_task(start_task(agent, Synthesis), Synthesis, 0)
            /\ metrics' = record_agent_execution(metrics, Synthesis, 0)
            /\ trace' = [trace EXCEPT ![r] = @ \o <<Event("call", Synthesis),
                                                   Event("return", Synthesis)>>]
            /\ pc' = [pc EXCEPT ![r] = "responding"]
            /\ UNCHANGED <<orch, response, loop, src, t0, results, cacheVars>>
    /\ UNCHANGED <<now, histVars, mergeVars, statVars, envVars, request, svcHist>>

\* synthesis stays None
SkipSynthesis(r) ==
    /\ loop = r
    /\ pc[r] = "synthesizing"
    /\ ~ShouldSynthesize(r)
    /\ pc' = [pc EXCEPT ![r] = "responding"]
    /\ UNCHANGED <<now, cacheVars, histVars, mergeVars, statVars, envVars, request, src, t0,
                   results, synthesis, response, trace, sysVars, svcHist>>

\* execute_search: the response dict; search: cached = False, cache.set
BuildResponse(r) ==
    [kind |-> "response",
     query |-> request[r].query,
     results |-> results[r].results,
     synthesis |-> synthesis[r],
     agent_metrics |->
        [search_execution_ms |->
            IF results[r].results # <<>>
            THEN results[r].results[1].search_execution_time_ms ELSE 0,
         synthesis_ms |->
            IF synthesis[r] # None THEN synthesis[r].synthesis_time_ms ELSE 0,
         agents_used |-> _get_agents_used(request[r].enable_analysis,
                                          request[r].include_synthesis),
         cache_hit |-> FALSE],
     timestamp |-> now,
     cached |-> FALSE]

Respond(r) ==
    /\ loop = r
    /\ pc[r] = "responding"
    /\ orch' = [orch EXCEPT !.successful_searches = @ + 1]
    /\ set(CacheKeyOf(request[r].query, request[r].max_results), BuildResponse(r))
    /\ response' = [response EXCEPT ![r] = BuildResponse(r)]
    /\ done' = [done EXCEPT ![CacheKeyOf(request[r].query, request[r].max_results)] =
                   [at |-> now]]
    /\ pc' = [pc EXCEPT ![r] = "completed"]
    /\ loop' = 0
    /\ Release(r)
    /\ UNCHANGED <<now, histVars, mergeVars, statVars, envVars, request, trace, metrics, agent,
                   expectHit>>

\* DELETE /cache/clear, run in a worker thread
ClearCache ==
    /\ clear
    /\ done' = [k \in Keys |-> None]
    /\ UNCHANGED <<now, histVars, mergeVars, statVars, envVars, reqVars, sysVars, expectHit>>

\* GET /health, run in a worker thread: cache.size()
HealthCheck ==
    /\ size
    /\ UNCHANGED <<now, histVars, mergeVars, statVars, svcVars>>

\* The clock (time.time, datetime.now) moves by steps of half a time to live.
\* A request takes none of them from its lookup in the cache to its answer,
\* unless it is inside a library call that does not return.
Tick ==
    /\ now < MaxTicks * TickSeconds
    /\ loop # 0 => \E s \in Sources : src[loop][s] = Hung
    /\ loop = 0 => \A r \in Reqs : pc[r] # "gathering"
    /\ now' = now + TickSeconds
    /\ UNCHANGED <<cacheVars, histVars, mergeVars, statVars, svcVars>>

ServiceInit(ddgs, wiki) ==
    /\ ddgs_available = ddgs
    /\ wikipedia_available = wiki
    /\ loop = 0
    /\ pc = [r \in Reqs |-> "idle"]
    /\ request = [r \in Reqs |-> None]
    /\ src = [r \in Reqs |-> [s \in Sources |-> NotLaunched]]
    /\ t0 = [r \in Reqs |-> 0]
    /\ results = [r \in Reqs |-> None]
    /\ synthesis = [r \in Reqs |-> None]
    /\ response = [r \in Reqs |-> None]
    /\ trace = [r \in Reqs |-> <<>>]
    /\ orch = [total_searches |-> 0, successful_searches |-> 0, failed_searches |-> 0]
    /\ metrics = NewMetrics
    /\ agent = [a \in Agents |-> NewAgent]
    /\ done = [k \in Keys |-> None]
    /\ expectHit = [r \in Reqs |-> FALSE]

----------------------------------------------------------------------------
(* The cache driver: any sequence of get/set/size/clear calls *)

\* history of a set: the value, the time, and the entry the set found
Written(key, value) ==
    [value |-> value, at |-> now,
     found |-> IF key \notin DOMAIN cache THEN "none"
               ELSE IF now < cache[key].expires_at THEN "live" ELSE "expired"]

Op(op, key, ret) == [op |-> op, key |-> key, at |-> now, ret |-> ret]

CacheGet(key) ==
    /\ calls < MaxCalls
    /\ get(key)
    /\ lastOp' = Op("get", key, get_return(key))
    /\ calls' = calls + 1
    /\ UNCHANGED <<now, written, mergeVars, statVars, svcVars>>

CacheSet(key, value) ==
    /\ calls < MaxCalls
    /\ set(key, value)
    /\ written' = [written EXCEPT ![key] = Written(key, value)]
    /\ lastOp' = Op("set", key, None)
    /\ calls' = calls + 1
    /\ UNCHANGED <<now, mergeVars, statVars, svcVars>>

CacheClear ==
    /\ calls < MaxCalls
    /\ clear
    /\ written' = [k \in Keys |-> None]
    /\ lastOp' = Op("clear", None, clear_return)
    /\ calls' = calls + 1
    /\ UNCHANGED <<now, mergeVars, statVars, svcVars>>

CacheSize ==
    /\ calls < MaxCalls
    /\ size
    /\ lastOp' = Op("size", None, size_return)
    /\ calls' = calls + 1
    /\ UNCHANGED <<now, written, mergeVars, statVars, svcVars>>

Init ==
    /\ now = 0
    /\ cache = [x \in {} |-> None]
    /\ hits = 0
    /\ misses = 0
    /\ calls = 0
    /\ written = [k \in Keys |-> None]
    /\ lastOp = Op("init", None, None)
    /\ mIn = None
    /\ mOut = None
    /\ stats = StatsIdle
    /\ ServiceInit(TRUE, TRUE)

CacheNext ==
    \/ Tick
    \/ \E k \in Keys : CacheGet(k)
    \/ \E k \in Keys, v \in Values : CacheSet(k, v)
    \/ CacheClear
    \/ CacheSize

SpecCache == Init /\ [][CacheNext]_vars

----------------------------------------------------------------------------
(* SearchCache.get_stats, cache.py, called in one thread while other        *)
(* threads call get, set and clear. get, set, clear and size hold the lock  *)
(* from their first line to their return; get_stats takes no lock, so the   *)
(* other threads run between its reads of self.hits and self.misses.        *)
(* hit_rate is kept in hundredths: 6667 is 66.67.                           *)

\* what size(), hits and misses are for a store c and counters h and m
Snapshot(c, h, m) ==
    [size |-> Cardinality(DOMAIN CleanExpired(c)), hits |-> h, misses |-> m]

Running == stats.pc \notin {"idle", "returned"}

\* history: the store and counters the call finds after a step of a thread
Observe(st, snap) ==
    IF st.pc \notin {"idle", "returned"}
    THEN [st EXCEPT !.seen = @ \cup {snap}]
    ELSE st

\* round(self.hits / total_requests * 100, 2) if total_requests > 0 else 0.0
HitRate(h, total_requests) ==
    IF total_requests > 0 THEN RoundDiv(h * 10000, total_requests) ELSE 0

ThreadGet(key) ==
    /\ calls < MaxCalls
    /\ get(key)
    /\ lastOp' = Op("get", key, get_return(key))
    /\ calls' = calls + 1
    /\ stats' = Observe(stats, Snapshot(cache', hits', misses'))
    /\ UNCHANGED <<now, written, mergeVars, svcVars>>

ThreadSet(key, value) ==
    /\ calls < MaxCalls
    /\ set(key, value)
    /\ written' = [written EXCEPT ![key] = Written(key, value)]
    /\ lastOp' = Op("set", key, None)
    /\ calls' = calls + 1
    /\ stats' = Observe(stats, Snapshot(cache', hits', misses'))
    /\ UNCHANGED <<now, mergeVars, svcVars>>

ThreadClear ==
    /\ calls < MaxCalls
    /\ clear
    /\ written' = [k \in Keys |-> None]
    /\ lastOp' = Op("clear", None, clear_return)
    /\ calls' = calls + 1
    /\ stats' = Observe(stats, Snapshot(cache', hits', misses'))
    /\ UNCHANGED <<now, mergeVars, svcVars>>

\* get_stats is called; line 63, left operand: self.hits
StatsCall ==
    /\ stats.pc = "idle"
    /\ stats' = [StatsIdle EXCEPT !.pc = "total", !.hits_read = hits,
                                  !.seen = {Snapshot(cache, hits, misses)}]
    /\ UNCHANGED <<now, cacheVars, histVars, mergeVars, svcVars>>

\* line 63, right operand: total_requests = self.hits + self.misses
StatsTotal ==
    /\ stats.pc = "total"
    /\ stats' = [stats EXCEPT !.pc = "rate", !.total_requests = stats.hits_read + misses]
    /\ UNCHANGED <<now, cacheVars, histVars, mergeVars, svcVars>>

\* line 64: hit_rate, with self.hits read again
StatsRate ==
    /\ stats.pc = "rate"
    /\ stats' = [stats EXCEPT !.pc = "size",
                              !.hit_rate = HitRate(hits, stats.total_requests)]
    /\ UNCHANGED <<now, cacheVars, histVars, mergeVars, svcVars>>

\* line 67: 'size': self.size()
StatsSize ==
    /\ stats.pc = "size"
    /\ size
    /\ stats' = [stats EXCEPT !.pc = "hits", !.size = size_return]
    /\ UNCHANGED <<now, histVars, mergeVars, svcVars>>

\* line 68: 'hits': self.hits
StatsHits ==
    /\ stats.pc = "hits"
    /\ stats' = [stats EXCEPT !.pc = "misses", !.hits = hits]
    /\ UNCHANGED <<now, cacheVars, histVars, mergeVars, svcVars>>

\* line 69: 'misses': self.misses, and the return
StatsMisses ==
    /\ stats.pc = "misses"
    /\ stats' = [stats EXCEPT !.pc = "returned", !.misses = misses]
    /\ UNCHANGED <<now, cacheVars, histVars, mergeVars, svcVars>>

StatsNext ==
    \/ \E k \in Keys : ThreadGet(k)
    \/ \E k \in Keys, v \in Values : ThreadSet(k, v)
    \/ ThreadClear
    \/ StatsCall
    \/ StatsTotal
    \/ StatsRate
    \/ StatsSize
    \/ StatsHits
    \/ StatsMisses

SpecStats == Init /\ [][StatsNext]_vars


----------------------------------------------------------------------------
(* The merge driver: search_parallel's join, merge and truncation applied   *)
(* to every pair of source replies.                                         *)

MergeInputsFor(m) ==
    {[max_results |-> m, ddg |-> d, wiki |-> w] :
        d \in DdgReplies(m) \cup {NotLaunched},
        w \in WikiReplies(m) \cup {NotLaunched}}

MergeInputs == UNION {MergeInputsFor(m) : m \in 1..MaxLimit}

\* the results asyncio.gather returns: one per launched task, in launch order
GatherResults(in) ==
    (IF in.ddg = NotLaunched THEN <<>>
     ELSE <<ListOutcome(_search_duckduckgo(in.ddg))>>)
    \o (IF in.wiki = NotLaunched THEN <<>>
        ELSE <<ListOutcome(_search_wikipedia(in.wiki))>>)

InitMerge ==
    /\ now = 0
    /\ cache = [x \in {} |-> None]
    /\ hits = 0
    /\ misses = 0
    /\ calls = 0
    /\ written = [k \in Keys |-> None]
    /\ lastOp = Op("init", None, None)
    /\ mIn \in MergeInputs
    /\ mOut = None
    /\ stats = StatsIdle
    /\ ServiceInit(TRUE, TRUE)

ApplyMerge ==
    /\ mOut = None
    /\ mOut' = Returned(RetrieverOutput(GatherResults(mIn), mIn.max_results, now, 0))
    /\ UNCHANGED <<now, cacheVars, histVars, mIn, statVars, svcVars>>

SpecMerge == InitMerge /\ [][ApplyMerge]_vars

----------------------------------------------------------------------------
(* AnalysisAgent.analyze applied to any list of results the retriever can   *)
(* hand over: results told apart by their url, from either source, at a     *)
(* position that scores (1, 2) or not (11), with a text that matches the    *)
(* query or not.                                                            *)

UrlNames == <<"a", "b", "c", "d", "e">>

AnalyzeElements ==
    [source : Sources, position : {1, 2, 11}, text : {"t", "x"}]

AnalyzeListsOf(n) ==
    {[i \in 1..n |-> RawResult(UrlNames[i], e[i].source, e[i].position, e[i].text)] :
        e \in [1..n -> AnalyzeElements]}

AnalyzeInputs(n) == {[kind |-> "analyze", list |-> l] : l \in AnalyzeListsOf(n)}

InitAnalyze ==
    /\ now = 0
    /\ cache = [x \in {} |-> None]
    /\ hits = 0
    /\ misses = 0
    /\ calls = 0
    /\ written = [k \in Keys |-> None]
    /\ lastOp = Op("init", None, None)
    /\ \E n \in 0..MaxList : mIn \in AnalyzeInputs(n)
    /\ mOut = None
    /\ stats = StatsIdle
    /\ ServiceInit(TRUE, TRUE)

\* analysis_agent.analyze: [] for no result, else the ranked list
ApplyAnalyze ==
    /\ mOut = None
    /\ mOut' = Returned(IF mIn.list = <<>> THEN <<>> ELSE analyze(mIn.list))
    /\ UNCHANGED <<now, cacheVars, histVars, mIn, statVars, svcVars>>

SpecAnalyze == InitAnalyze /\ [][ApplyAnalyze]_vars

----------------------------------------------------------------------------
(* The Scorer/Ranker and the Synthesizer called one after the other on any  *)
(* list of results: analysis_agent.analyze when analysis is enabled, then   *)
(* synthesis_agent.synthesize on what came out of it, the empty list        *)
(* included. A single result is drawn from every source (a known one or     *)
(* not), position and text; longer lists from four kinds of result, two of  *)
(* them of quality (a score above 0.5).                                     *)

ScoreElements ==
    [source : Sources \cup {"other"}, position : {1, 2, 11, 12},
     text : {"t", "k", "x", ""}]

RankElements ==
    {[source |-> "wikipedia", position |-> 1, text |-> "t"],
     [source |-> "duckduckgo", position |-> 1, text |-> "t"],
     [source |-> "duckduckgo", position |-> 2, text |-> "k"],
     [source |-> "other", position |-> 11, text |-> ""]}

RankListsOf(n) ==
    {[i \in 1..n |-> RawResult(UrlNames[((i - 1) % Len(UrlNames)) + 1],
                               e[i].source, e[i].position, e[i].text)] :
        e \in [1..n -> IF n <= 1 THEN ScoreElements ELSE RankElements]}

RankInputs(n) ==
    {[kind |-> "rank", list |-> l, enable_analysis |-> b] :
        l \in RankListsOf(n), b \in BOOLEAN}

InitRank ==
    /\ now = 0
    /\ cache = [x \in {} |-> None]
    /\ hits = 0
    /\ misses = 0
    /\ calls = 0
    /\ written = [k \in Keys |-> None]
    /\ lastOp = Op("init", None, None)
    /\ \E n \in 0..MaxRanked : mIn \in RankInputs(n)
    /\ mOut = None
    /\ stats = StatsIdle
    /\ ServiceInit(TRUE, TRUE)

\* analysis_agent.analyze when enabled ([] for no result); the list as it is
\* when not
RankAnalyze ==
    /\ mOut = None
    /\ mOut' = Returned(IF mIn.enable_analysis /\ mIn.list # <<>>
                        THEN analyze(mIn.list) ELSE mIn.list)
    /\ UNCHANGED <<now, cacheVars, histVars, mIn, statVars, svcVars>>

\* synthesis_agent.synthesize on the list the analysis step left
RankSynthesize ==
    /\ mOut # None
    /\ mOut.kind = "returned"
    /\ mOut' = [kind |-> "synthesized", results |-> mOut.results,
                synthesis |-> synthesize(mOut.results, 0)]
    /\ UNCHANGED <<now, cacheVars, histVars, mIn, statVars, svcVars>>

RankNext == RankAnalyze \/ RankSynthesize

SpecRank == InitRank /\ [][RankNext]_vars

----------------------------------------------------------------------------
(* QueryProcessorAgent.process applied to queries made of words joined by   *)
(* one space: up to three words of a vocabulary that holds the question     *)
(* words, the words of the intent patterns, a word that holds one of them   *)
(* inside ("laptop"), stop words, a capitalised word and a lone special     *)
(* character; and longer queries of a few words, to fill the keyword list.  *)

Vocabulary ==
    {<<"w", "h", "a", "t">>, <<"W", "h", "a", "t">>, <<"w", "h", "o">>,
     <<"w", "h", "e", "n">>, <<"w", "h", "e", "r", "e">>, <<"w", "h", "y">>,
     <<"h", "o", "w">>, <<"t", "o">>, <<"d", "o">>, <<"b", "e", "s", "t">>,
     <<"l", "a", "p", "t", "o", "p">>, <<"c", "o", "m", "p", "a", "r", "e">>,
     <<"v", "s">>, <<"v", "e", "r", "s", "u", "s">>, <<"r", "e", "v", "i", "e", "w">>,
     <<"r", "u", "s", "t">>, <<"i", "s">>, <<"!">>}

FewWords == {<<"r", "u", "s", "t">>, <<"j", "a", "v", "a">>, <<"i", "s">>}

QueryInputs(n) ==
    {[kind |-> "query", query |-> SpaceJoin(w)] :
        w \in [1..n -> IF n <= 3 THEN Vocabulary ELSE FewWords]}

InitQuery ==
    /\ now = 0
    /\ cache = [x \in {} |-> None]
    /\ hits = 0
    /\ misses = 0
    /\ calls = 0
    /\ written = [k \in Keys |-> None]
    /\ lastOp = Op("init", None, None)
    /\ \E n \in 0..MaxWords : mIn \in QueryInputs(n)
    /\ mOut = None
    /\ stats = StatsIdle
    /\ ServiceInit(TRUE, TRUE)

ApplyProcess ==
    /\ mOut = None
    /\ mOut' = [kind |-> "processed", result |-> process(mIn.query)]
    /\ UNCHANGED <<now, cacheVars, histVars, mIn, statVars, svcVars>>

SpecQuery == InitQuery /\ [][ApplyProcess]_vars


----------------------------------------------------------------------------
(* MetricsCollector.record_search called again and again, past the length   *)
(* of the history. The query of the i-th call is "q1" when i + phase is a   *)
(* multiple of period and "q2" when not, so that the queries of the calls   *)
(* differ and the history expected after any number of calls is known.      *)

SearchPatterns ==
    {[kind |-> "searches", period |-> p, phase |-> f] : p \in 1..3, f \in 0..2}

QueryAt(pattern, i) ==
    IF (i + pattern.phase) % pattern.period = 0 THEN "q1" ELSE "q2"

InitMetrics ==
    /\ now = 0
    /\ cache = [x \in {} |-> None]
    /\ hits = 0
    /\ misses = 0
    /\ calls = 0
    /\ written = [k \in Keys |-> None]
    /\ lastOp = Op("init", None, None)
    /\ mIn \in SearchPatterns
    /\ mOut = None
    /\ stats = StatsIdle
    /\ ServiceInit(TRUE, TRUE)

RecordSearch ==
    /\ calls < MaxRecorded
    /\ calls' = calls + 1
    /\ metrics' = record_search(metrics, QueryAt(mIn, calls + 1))
    /\ mOut' = None
    /\ UNCHANGED <<now, cacheVars, written, lastOp, mIn, statVars, envVars,
                   reqVars, loop, orch, agent, svcHist>>

\* the limits GET /search/history is asked with: the default and small ones
HistoryLimits == (0..MaxHistoryLimit) \cup {DefaultLimit}

\* GET /search/history?limit=...: count and searches of the answer
GetHistory ==
    /\ mOut = None
    /\ \E limit \in HistoryLimits :
           LET history == get_search_history(metrics, limit)
           IN  mOut' = [kind |-> "history", limit |-> limit,
                        count |-> Len(history), searches |-> history]
    /\ UNCHANGED <<now, cacheVars, histVars, mIn, statVars, svcVars>>

MetricsNext == RecordSearch \/ GetHistory

SpecMetrics == InitMetrics /\ [][MetricsNext]_vars

----------------------------------------------------------------------------
(* C1: a get made at or after the expiry of the entry stored for its key   *)
(* (the last set of that key was ttl_seconds or more before the get)       *)
(* returns None and leaves no entry for the key in the store.              *)
C1_ExpiredGetMisses ==
    (/\ lastOp.op = "get"
     /\ written[lastOp.key] # None
     /\ lastOp.at >= written[lastOp.key].at + ttl_seconds)
    => (lastOp.ret = None /\ lastOp.key \notin DOMAIN cache)

\* a get of a key whose entry was still stored and had expired
C1_Witness ==
    /\ lastOp.op = "get"
    /\ written[lastOp.key] # None
    /\ lastOp.at >= written[lastOp.key].at + ttl_seconds
    /\ misses = 1
    /\ calls = 2

(* C2: a get of a key made less than ttl_seconds after the last set of     *)
(* that key, with no clear in between, returns exactly the value set.      *)
C2_RoundTrip ==
    (/\ lastOp.op = "get"
     /\ written[lastOp.key] # None
     /\ lastOp.at < written[lastOp.key].at + ttl_seconds)
    => lastOp.ret = written[lastOp.key].value

\* a get that returned the value stored one tick earlier
C2_Witness ==
    /\ lastOp.op = "get"
    /\ written[lastOp.key] # None
    /\ lastOp.at = written[lastOp.key].at + TickSeconds
    /\ lastOp.ret = written[lastOp.key].value
    /\ hits = 1
----------------------------------------------------------------------------
(* The service: any requests, replies and faults, the clock, the cache      *)
(* administration. The two source libraries are installed or not.           *)

InitService ==
    /\ now = 0
    /\ cache = [x \in {} |-> None]
    /\ hits = 0
    /\ misses = 0
    /\ calls = 0
    /\ written = [k \in Keys |-> None]
    /\ lastOp = Op("init", None, None)
    /\ mIn = None
    /\ mOut = None
    /\ stats = StatsIdle
    /\ \E ddgs \in BOOLEAN, wiki \in BOOLEAN : ServiceInit(ddgs, wiki)

RequestNext ==
    \/ \E r \in Reqs : \E rq \in RequestsOf(r) : Issue(r, rq)
    \/ \E r \in Reqs : OrchStart(r)
    \/ \E r \in Reqs, raises \in BOOLEAN : Normalize(r, raises)
    \/ \E r \in Reqs : Launch(r)
    \/ \E r \in Reqs, s \in Sources : \E reply \in Replies(s) : SourceCall(r, s, reply)
    \/ \E r \in Reqs : Join(r)
    \/ \E r \in Reqs, raises \in BOOLEAN : Analyze(r, raises)
    \/ \E r \in Reqs : SkipAnalysis(r)
    \/ \E r \in Reqs, raises \in BOOLEAN : Synthesize(r, raises)
    \/ \E r \in Reqs : SkipSynthesis(r)
    \/ \E r \in Reqs : Respond(r)

Next ==
    \/ RequestNext
    \/ Tick
    \/ ClearCache
    \/ HealthCheck

Spec == InitService /\ [][Next]_vars

\* The event loop runs a callback that is ready
FairSpec == Spec /\ WF_vars(RequestNext)


----------------------------------------------------------------------------
(* What the merge driver's source calls returned, concatenated in launch    *)
(* order (duckduckgo before wikipedia)                                      *)
SourceLists ==
    (IF mIn.ddg = NotLaunched \/ mIn.ddg.kind = "raise" THEN <<>>
     ELSE [i \in 1..Len(mIn.ddg.items) |->
             RawResult(mIn.ddg.items[i].url, "duckduckgo", i, "t")])
    \o (IF mIn.wiki = NotLaunched \/ mIn.wiki.kind = "raise" THEN <<>>
        ELSE LET ok == {i \in 1..Len(mIn.wiki.items) : mIn.wiki.items[i].ok}
             IN  [n \in 1..Cardinality(ok) |->
                    LET i == CHOOSE i \in ok : Cardinality({j \in ok : j <= i}) = n
                    IN  RawResult(mIn.wiki.items[i].url, "wikipedia", i, "t")])

ReturnedRaw == [n \in 1..Len(mOut.results) |-> RawOf(mOut.results[n])]

\* the positions of all whose url was not seen before them
FirstSeen(all) ==
    {i \in 1..Len(all) : \A j \in 1..(i - 1) : all[j].url # all[i].url}

\* the elements of all at the positions S, in order, cut to cap
Selected(all, S, cap) ==
    [n \in 1..Min(cap, Cardinality(S)) |->
        all[CHOOSE i \in S : Cardinality({j \in S : j <= i}) = n]]

(* C8: no two results of the returned list share a url, and each returned   *)
(* result is the first one with its url in the concatenation of the source  *)
(* lists in launch order.                                                   *)
C8_Dedup ==
    mOut # None =>
        /\ \A i, j \in 1..Len(mOut.results) : i # j => mOut.results[i].url # mOut.results[j].url
        /\ \A n \in 1..Len(mOut.results) :
              \E i \in FirstSeen(SourceLists) : SourceLists[i] = ReturnedRaw[n]

\* both sources returned url "a" first; the list kept duckduckgo's
C8_Witness ==
    /\ mOut # None
    /\ mIn.ddg # NotLaunched /\ mIn.ddg.kind = "ok" /\ Len(mIn.ddg.items) = 2
    /\ mIn.wiki # NotLaunched /\ mIn.wiki.kind = "ok" /\ Len(mIn.wiki.items) = 1
    /\ mIn.ddg.items[1].url = "a" /\ mIn.ddg.items[2].url = "b"
    /\ mIn.wiki.items[1].url = "a" /\ mIn.wiki.items[1].ok
    /\ Len(mOut.results) = 2
    /\ mOut.results[1].source = "duckduckgo" /\ mOut.results[1].url = "a"

(* C9, as stated: the returned list is the concatenation of the source      *)
(* lists, deduplicated by url keeping the first occurrence, cut to          *)
(* max_results: every first-seen result within the cap is returned.         *)
C9_AsStated ==
    mOut # None =>
        ReturnedRaw = Selected(SourceLists, FirstSeen(SourceLists), mIn.max_results)

(* C9, amended: the returned list is the concatenation of the source lists  *)
(* without the results whose url is empty, deduplicated by url keeping the  *)
(* first occurrence, cut to max_results; so it has at most max_results      *)
(* entries.                                                                 *)
C9_MergeOutput ==
    mOut # None =>
        /\ ReturnedRaw =
              Selected(SourceLists,
                       {i \in FirstSeen(SourceLists) : SourceLists[i].url # ""},
                       mIn.max_results)
        /\ Len(mOut.results) <= mIn.max_results

\* three distinct non-empty first-seen urls came back and the cap of 2 cut one
C9_Witness ==
    /\ mOut # None
    /\ mIn.max_results = 2
    /\ Len(SourceLists) = 4
    /\ Cardinality({i \in FirstSeen(SourceLists) : SourceLists[i].url # ""}) = 2
    /\ Cardinality(FirstSeen(SourceLists)) = 3
    /\ Len(mOut.results) = 2
    /\ mOut.results[2].source = "wikipedia"

----------------------------------------------------------------------------
(* The service claims *)

(* C3: a request for a key whose response was computed and stored less than *)
(* a time to live ago, with no clear since, is answered from the cache, and *)
(* its response has cached = TRUE and agent_metrics.cache_hit = TRUE; the   *)
(* response of a request that ran the pipeline has cached = FALSE.          *)
C3_ServedFromCache ==
    \A r \in Reqs :
        /\ expectHit[r] =>
              /\ pc[r] = "served"
              /\ response[r].kind = "response"
              /\ response[r].cached = TRUE
              /\ response[r].agent_metrics.cache_hit = TRUE
        /\ pc[r] = "completed" =>
              /\ response[r].cached = FALSE
              /\ response[r].agent_metrics.cache_hit = FALSE

\* the first request computed its response, the second got it from the cache
C3_Witness ==
    /\ pc[1] = "completed" /\ response[1].cached = FALSE
    /\ expectHit[2] /\ pc[2] = "served" /\ response[2].cached = TRUE
    /\ request[2].query = request[1].query

StageEvents(r, stage) == {i \in 1..Len(trace[r]) : trace[r][i].stage = stage}

(* C4: when the library of a source raised, the source gave the empty list, *)
(* no returned result is from it, the results of the other source are the   *)
(* returned list (first of each url, empty urls dropped, cut to             *)
(* max_results), and the stage returned; no retrieval stage ever raises.    *)
C4_FailureIsolation ==
    \A r \in Reqs :
        /\ \A i \in StageEvents(r, SearchExecutor) : trace[r][i].ev # "raise"
        /\ pc[r] = "scoring" =>
              \A s \in Sources :
                 (src[r][s].kind = "list" /\ src[r][s].raised) =>
                    /\ src[r][s].items = <<>>
                    /\ \A n \in 1..Len(results[r].results) :
                          results[r].results[n].source # s
                    /\ trace[r][Len(trace[r])] = Event("return", SearchExecutor)
                    /\ \A o \in Sources \ {s} :
                          (src[r][o].kind = "list" /\ ~src[r][o].raised) =>
                             [n \in 1..Len(results[r].results) |->
                                 RawOf(results[r].results[n])]
                             = Selected(src[r][o].items,
                                        {i \in FirstSeen(src[r][o].items) :
                                            src[r][o].items[i].url # ""},
                                        request[r].max_results)

\* wikipedia raised and the two results of duckduckgo were returned
C4_Witness ==
    \E r \in Reqs :
        /\ pc[r] = "scoring"
        /\ src[r]["wikipedia"].kind = "list" /\ src[r]["wikipedia"].raised
        /\ src[r]["duckduckgo"].kind = "list" /\ ~src[r]["duckduckgo"].raised
        /\ Len(results[r].results) = 2
        /\ results[r].results[1].source = "duckduckgo"

(* C5, as stated: a request whose sources select no available adapter does *)
(* not complete: its retrieval stage raises and the request fails.          *)
C5_AsStated ==
    \A r \in Reqs :
        (request[r] # None /\ Tasks(request[r]) = <<>>) =>
            pc[r] \notin {"scoring", "synthesizing", "responding", "completed"}

(* C6, as stated: a request whose sources were launched ends, completed or  *)
(* failed, whatever the source calls do.                                    *)
C6_AsStated ==
    \A r \in Reqs : (pc[r] = "gathering") ~> (pc[r] \in {"completed", "failed"})

(* C7: a merged list exists only when no launched source call is in flight: *)
(* each has given its list, or the library raised and it gave the empty one.*)
C7_FanInJoin ==
    \A r \in Reqs :
        results[r] # None =>
            \A s \in Sources : src[r][s].kind \in {"not launched", "list"}

\* both calls were launched and ended, and their lists were merged
C7_Witness ==
    \E r \in Reqs :
        /\ results[r] # None
        /\ \A s \in Sources : src[r][s].kind = "list"
        /\ Len(results[r].results) = 2
        /\ pc[r] = "scoring"

StageIndex(stage) ==
    CASE stage = QueryProcessor -> 1
      [] stage = SearchExecutor -> 2
      [] stage = Analysis -> 3
      [] stage = Synthesis -> 4

Ended(r) == pc[r] \in {"completed", "failed"}

\* in the trace of r: every stage is called after the return of the one
\* before it, in the order of the pipeline, once at most, the first two
\* never skipped
OrderedTrace(r) ==
    \A i \in 1..Len(trace[r]) :
        trace[r][i].ev = "call" =>
            /\ i = 1 => trace[r][i].stage = QueryProcessor
            /\ i > 1 =>
                  /\ trace[r][i - 1].ev = "return"
                  /\ StageIndex(trace[r][i - 1].stage) < StageIndex(trace[r][i].stage)
                  /\ StageIndex(trace[r][i].stage) > 2
                     \/ StageIndex(trace[r][i].stage) = StageIndex(trace[r][i - 1].stage) + 1

\* the step calls stage for r
Calls(r, stage) ==
    /\ Len(trace'[r]) > Len(trace[r])
    /\ trace'[r][Len(trace[r]) + 1] = Event("call", stage)

(* C10: the stages of a query run in the order QueryProcessor,              *)
(* SearchExecutor, AnalysisAgent, SynthesisAgent, each once at most and     *)
(* each after the return of the one before; AnalysisAgent runs only if      *)
(* analysis is enabled, SynthesisAgent only if synthesis is enabled and     *)
(* there are results; a query that ended is completed with a response or    *)
(* failed with an error, and stays so with no further stage.                *)
C10_StageOrder ==
    /\ [](\A r \in Reqs :
            /\ OrderedTrace(r)
            /\ pc[r] = "completed" =>
                  /\ response[r].kind = "response"
                  /\ trace[r][Len(trace[r])].ev = "return"
            /\ pc[r] = "failed" =>
                  /\ response[r].kind = "error"
                  /\ trace[r][Len(trace[r])].ev = "raise")
    /\ [][\A r \in Reqs :
            /\ Calls(r, Analysis) => request[r].enable_analysis
            /\ Calls(r, Synthesis) =>
                  /\ request[r].include_synthesis
                  /\ results[r].results # <<>>
            /\ Ended(r) => (pc'[r] = pc[r] /\ trace'[r] = trace[r])]_vars

\* a query ran its four stages in order
C10_Witness ==
    \E r \in Reqs :
        /\ pc[r] = "responding"
        /\ Len(trace[r]) = 8
        /\ trace[r][1] = Event("call", QueryProcessor)
        /\ trace[r][3] = Event("call", SearchExecutor)
        /\ trace[r][5] = Event("call", Analysis)
        /\ trace[r][7] = Event("call", Synthesis)

RaiseEvents(r) == {i \in 1..Len(trace[r]) : trace[r][i].ev = "raise"}

\* the step raises in a stage of r
RaisesIn(r) ==
    /\ Len(trace'[r]) > Len(trace[r])
    /\ trace'[r][Len(trace'[r])].ev = "raise"

(* C11: when a stage of a query raises, the query fails in that step:       *)
(* failed_searches grows by one, successful_searches does not change, the   *)
(* answer is the error and holds no result; in the trace of a failed query  *)
(* the raise is the last event, it is the only one, and no stage was called *)
(* twice.                                                                   *)
C11_FatalAbort ==
    /\ [](\A r \in Reqs :
            pc[r] = "failed" =>
               /\ response[r] = Error500
               /\ RaiseEvents(r) = {Len(trace[r])}
               /\ \A i, j \in 1..Len(trace[r]) :
                     (i # j /\ trace[r][i].ev = "call" /\ trace[r][j].ev = "call")
                        => trace[r][i].stage # trace[r][j].stage)
    /\ [][\A r \in Reqs :
            /\ RaisesIn(r) =>
                  /\ pc'[r] = "failed"
                  /\ orch'.failed_searches = orch.failed_searches + 1
                  /\ orch'.successful_searches = orch.successful_searches
                  /\ orch'.total_searches = orch.total_searches
            /\ (pc[r] # "failed" /\ pc'[r] = "failed") => RaisesIn(r)
            /\ pc[r] = "failed" => (trace'[r] = trace[r] /\ response'[r] = response[r])]_vars

\* the analysis of a query raised after two stages returned
C11_Witness ==
    \E r \in Reqs :
        /\ pc[r] = "failed"
        /\ Len(trace[r]) = 6
        /\ trace[r][6] = Event("raise", Analysis)
        /\ orch.failed_searches = 1
        /\ orch.successful_searches = 0

(* C12, as stated: the error counter of the metrics equals the number of   *)
(* failed queries.                                                          *)
C12_AsStated == metrics.error_count = orch.failed_searches

KeyOf(r) == CacheKeyOf(request[r].query, request[r].max_results)

\* the requests that missed the cache and entered execute_search
Entered == {r \in Reqs : pc[r] \notin {"idle", "served", "received"}}

(* C13: every request that missed the cache runs the pipeline itself,       *)
(* whatever the other requests for its key do: each is counted in           *)
(* total_searches and has its own normalization and retrieval; and when it  *)
(* answers, its cache.set leaves its own response under the key, whatever   *)
(* another request stored there before.                                     *)
C13_NoCoalescing ==
    /\ [](/\ orch.total_searches = Cardinality(Entered)
          /\ \A r \in Reqs :
                pc[r] \in {"responding", "completed"} =>
                   /\ ~expectHit[r]
                   /\ Len(trace[r]) >= 4
                   /\ trace[r][2] = Event("return", QueryProcessor)
                   /\ trace[r][3] = Event("call", SearchExecutor)
                   /\ trace[r][4] = Event("return", SearchExecutor))
    /\ [][\A r \in Reqs :
            (pc[r] = "responding" /\ pc'[r] = "completed") =>
               /\ KeyOf(r) \in DOMAIN cache'
               /\ cache'[KeyOf(r)].value = response'[r]
               /\ cache'[KeyOf(r)].expires_at = now + ttl_seconds]_vars

\* two requests for one key both missed; the first has stored its response,
\* which is still live, and the second, with another response, is about to
\* store its own
C13_Witness ==
    /\ pc[1] = "completed" /\ pc[2] = "responding"
    /\ KeyOf(1) = KeyOf(2)
    /\ KeyOf(1) \in DOMAIN cache
    /\ cache[KeyOf(1)].value = response[1]
    /\ now < cache[KeyOf(1)].expires_at
    /\ results[2].results # response[1].results

(* C14, as stated: the size, hits and misses a call of get_stats returns    *)
(* are those of one instant of the call: together they held at its start    *)
(* or after some step the other threads made while it ran.                  *)
C14_AsStated ==
    stats.pc = "returned" =>
        [size |-> stats.size, hits |-> stats.hits, misses |-> stats.misses] \in stats.seen

(* C19, as stated: the hit rate get_stats returns is hits / (hits + misses) *)
(* of the counters it read, between 0 and 1, and 0 when there was no get    *)
(* (in hundredths: between 0 and 100).                                      *)
C19_AsStated ==
    stats.pc = "returned" =>
        /\ stats.hit_rate >= 0 /\ stats.hit_rate <= 100
        /\ stats.total_requests = 0 => stats.hit_rate = 0
        /\ stats.total_requests > 0 =>
              stats.hit_rate = RoundDiv(stats.hits_read * 100, stats.total_requests)

\* the step is a call op of the cache driver
CacheCall(op) == calls' = calls + 1 /\ lastOp'.op = op

(* C15: a set on a key that has an entry, live or expired, leaves under     *)
(* the key one entry with the new value and expires_at = now + ttl_seconds  *)
(* and touches no other key; and a get of a key returns the value of its    *)
(* entry whenever now is before the entry's expires_at.                     *)
C15_SetReplaces ==
    [][\A k \in Keys :
         /\ (CacheCall("set") /\ lastOp'.key = k /\ k \in DOMAIN cache) =>
               /\ DOMAIN cache' = DOMAIN cache
               /\ cache'[k].value = written'[k].value
               /\ cache'[k].expires_at = now + ttl_seconds
               /\ \A o \in DOMAIN cache \ {k} : cache'[o] = cache[o]
         /\ (CacheCall("get") /\ lastOp'.key = k /\ k \in DOMAIN cache
                /\ now < cache[k].expires_at) =>
               lastOp'.ret = cache[k].value]_vars

\* a set found an expired entry under its key, and a get returned its value
C15_Witness ==
    /\ lastOp.op = "get"
    /\ written[lastOp.key] # None
    /\ written[lastOp.key].found = "expired"
    /\ lastOp.ret = written[lastOp.key].value
    /\ cache[lastOp.key].created_at = ttl_seconds

(* C16: a get adds one to hits and nothing to misses if it returns a value, *)
(* one to misses and nothing to hits if it returns None (no entry, or an    *)
(* expired one); set, size and clear change neither counter; so hits and    *)
(* misses together count the gets, and never exceed the calls made.         *)
C16_CountsGets ==
    /\ [](hits + misses <= calls)
    /\ [][/\ CacheCall("get") =>
                IF lastOp'.ret # None
                THEN hits' = hits + 1 /\ misses' = misses
                ELSE misses' = misses + 1 /\ hits' = hits
          /\ (calls' = calls + 1 /\ lastOp'.op \in {"set", "size", "clear"}) =>
                (hits' = hits /\ misses' = misses)]_vars

\* a hit, a miss on a key never set and a miss on an expired entry
C16_Witness ==
    /\ calls = 4
    /\ hits = 1 /\ misses = 2
    /\ lastOp.op = "get"
    /\ written[lastOp.key] # None
    /\ lastOp.at >= written[lastOp.key].at + ttl_seconds
    /\ Cardinality({k \in Keys : written[k] # None}) = 1

(* C17: a call of size removes exactly the entries with now >= expires_at,  *)
(* leaves the others as they were and returns their number: after it the    *)
(* store holds that many entries, none expired.                             *)
C17_SizePurges ==
    [][CacheCall("size") =>
          /\ DOMAIN cache' = {k \in DOMAIN cache : ~(now >= cache[k].expires_at)}
          /\ \A k \in DOMAIN cache' : cache'[k] = cache[k] /\ now < cache'[k].expires_at
          /\ lastOp'.ret = Cardinality(DOMAIN cache')]_vars

\* size found one expired entry and one live entry, and returned 1
C17_Witness ==
    /\ calls = 3
    /\ lastOp.op = "size"
    /\ lastOp.ret = 1
    /\ Cardinality(DOMAIN cache) = 1
    /\ \E k \in Keys :
          /\ written[k] # None
          /\ written[k].at + ttl_seconds = lastOp.at
          /\ k \notin DOMAIN cache

(* C18: a call of clear empties the store and returns the number of         *)
(* entries it held, expired ones included; and a get of a key that is not   *)
(* in the store, as after a clear, returns None and counts a miss.          *)
C18_ClearEmpties ==
    [][/\ CacheCall("clear") =>
            /\ DOMAIN cache' = {}
            /\ lastOp'.ret = Cardinality(DOMAIN cache)
       /\ \A k \in Keys :
            (CacheCall("get") /\ lastOp'.key = k /\ k \notin DOMAIN cache) =>
               (lastOp'.ret = None /\ misses' = misses + 1)]_vars

\* clear, called when now was ttl_seconds, removed two entries and returned 2
C18_Witness ==
    /\ calls = 3
    /\ lastOp.op = "clear"
    /\ lastOp.ret = 2
    /\ lastOp.at = ttl_seconds
    /\ DOMAIN cache = {}

(* C20: the list analyze returns for a non-empty list has as many results   *)
(* as the list it was given, the rank of the i-th is i, and the             *)
(* relevance_score never grows from one result to the next.                 *)
C20_RankedDescending ==
    (mOut # None /\ mIn.list # <<>>) =>
        /\ Len(mOut.results) = Len(mIn.list)
        /\ \A i \in 1..Len(mOut.results) : mOut.results[i].rank = i
        /\ \A i \in 1..(Len(mOut.results) - 1) :
              mOut.results[i].relevance_score >= mOut.results[i + 1].relevance_score

\* three results given in growing order of score came back reversed
C20_Witness ==
    /\ mOut # None
    /\ Len(mIn.list) = 3
    /\ mOut.results[1].url = "c" /\ mOut.results[2].url = "b" /\ mOut.results[3].url = "a"
    /\ mOut.results[1].relevance_score > mOut.results[2].relevance_score
    /\ mOut.results[2].relevance_score > mOut.results[3].relevance_score
    /\ mOut.results[3].rank = 3

\* where the result with this url stands in a list of results with distinct urls
PlaceOf(list, url) == CHOOSE k \in 1..Len(list) : list[k].url = url

(* C21: two results that analyze scores equally come back in the order the  *)
(* retriever gave them: the one given first is ranked first.                *)
C21_StableRanking ==
    (mOut # None /\ mIn.list # <<>>) =>
        \A i, j \in 1..Len(mIn.list) :
            (i < j /\ _calculate_relevance(mIn.list[i]) = _calculate_relevance(mIn.list[j])) =>
                PlaceOf(mOut.results, mIn.list[i].url) < PlaceOf(mOut.results, mIn.list[j].url)

\* "a" and "c" tie above "b", which was given between them: "a" is still
\* ranked before "c"
C21_Witness ==
    /\ mOut # None
    /\ Len(mIn.list) = 3
    /\ _calculate_relevance(mIn.list[1]) = _calculate_relevance(mIn.list[3])
    /\ _calculate_relevance(mIn.list[2]) < _calculate_relevance(mIn.list[1])
    /\ mOut.results[1].url = "a" /\ mOut.results[2].url = "c" /\ mOut.results[3].url = "b"
    /\ mOut.results[1].relevance_score = mOut.results[2].relevance_score

(* C22: every relevance_score _calculate_relevance gives, for any source,   *)
(* any position from 1 on and any text, lies between 0 and 1 (0..1000       *)
(* thousandths); the position component of a result at position 11 or       *)
(* later is 0; and the confidence synthesize gives for any list lies        *)
(* between 0 and 1 (0..100 hundredths).                                     *)
C22_ScoresInUnitRange ==
    /\ \A i \in 1..Len(mIn.list) :
          /\ mIn.list[i].position >= 1
          /\ _calculate_relevance(mIn.list[i]) \in 0..1000
          /\ mIn.list[i].position >= 11 => PositionScore(mIn.list[i].position) = 0
    /\ (mOut # None /\ mIn.enable_analysis) =>
          \A i \in 1..Len(mOut.results) : mOut.results[i].relevance_score \in 0..1000
    /\ (mOut # None /\ mOut.kind = "synthesized") => mOut.synthesis.confidence \in 0..100

\* six results, five of them of quality, the top three scored 0.98: the
\* confidence is 0.7 * 0.98 + 0.3 = 0.99, and the result at position 11 got
\* nothing for its position
C22_Witness ==
    /\ mOut # None
    /\ mOut.kind = "synthesized"
    /\ mIn.enable_analysis
    /\ Len(mOut.results) = 6
    /\ mOut.synthesis.confidence = 99
    /\ mOut.results[1].relevance_score = 980
    /\ mOut.results[6].position = 11
    /\ mOut.results[6].relevance_score = 100

\* the calls of a stage in the trace of a query
CallsOf(r, stage) == {i \in StageEvents(r, stage) : trace[r][i].ev = "call"}

(* C23: the response execute_search builds holds a synthesis exactly when   *)
(* the request asked for one and the final result list is not empty; when   *)
(* it holds none the Synthesizer was not called for that query, and when it *)
(* holds one the Synthesizer was called once; a query whose retrieval found *)
(* nothing completes with results = [] and synthesis = None.                *)
C23_SynthesisWhenResults ==
    \A r \in Reqs :
        pc[r] = "completed" =>
            /\ response[r].kind = "response"
            /\ response[r].synthesis # None <=>
                  (request[r].include_synthesis /\ response[r].results # <<>>)
            /\ response[r].synthesis = None => CallsOf(r, Synthesis) = {}
            /\ response[r].synthesis # None => Cardinality(CallsOf(r, Synthesis)) = 1
            /\ response[r].results = <<>> => response[r].synthesis = None

\* a query that asked for a synthesis and retrieved nothing completed with
\* no result and no synthesis, the Synthesizer never called
C23_Witness ==
    \E r \in Reqs :
        /\ pc[r] = "completed"
        /\ request[r].include_synthesis
        /\ response[r].kind = "response"
        /\ response[r].results = <<>>
        /\ response[r].synthesis = None
        /\ CallsOf(r, SearchExecutor) # {}
        /\ CallsOf(r, Synthesis) = {}

(* C24: synthesize, given the empty list, returns the fixed empty result:   *)
(* confidence 0.0, no key point, no source in sources_used and              *)
(* results_synthesized 0.                                                   *)
C24_EmptySynthesis ==
    (mOut # None /\ mOut.kind = "synthesized" /\ mOut.results = <<>>) =>
        /\ mOut.synthesis.confidence = 0
        /\ mOut.synthesis.key_points = <<>>
        /\ DOMAIN mOut.synthesis.sources_used = {}
        /\ mOut.synthesis.results_synthesized = 0

\* the Synthesizer was called on the empty list an analysis of no result left
C24_Witness ==
    /\ mOut # None
    /\ mOut.kind = "synthesized"
    /\ mIn.list = <<>>
    /\ mIn.enable_analysis
    /\ mOut.results = <<>>
    /\ mOut.synthesis = _empty_synthesis

\* the intent the question-word table gives a first token
TableIntent(token) ==
    CASE token = <<"w", "h", "a", "t">> -> "definition"
      [] token = <<"w", "h", "o">> -> "person"
      [] token = <<"w", "h", "e", "n">> -> "time"
      [] token = <<"w", "h", "e", "r", "e">> -> "location"
      [] token = <<"w", "h", "y">> -> "reason"
      [] token = <<"h", "o", "w">> -> "process"
      [] OTHER -> "none"

\* the intent of a text that has a token, rule after rule, the first that
\* matches
RuledIntent(text) ==
    IF Split(text) # <<>> /\ TableIntent(Split(text)[1]) # "none"
    THEN TableIntent(Split(text)[1])
    ELSE IF Contains(text, <<"h", "o", "w", " ", "t", "o">>)
            \/ Contains(text, <<"h", "o", "w", " ", "d", "o">>) THEN "tutorial"
    ELSE IF Contains(text, <<"b", "e", "s", "t">>) \/ Contains(text, <<"t", "o", "p">>)
         THEN "recommendation"
    ELSE IF Contains(text, <<"c", "o", "m", "p", "a", "r", "e">>)
            \/ Contains(text, <<"v", "s">>)
            \/ Contains(text, <<"v", "e", "r", "s", "u", "s">>) THEN "comparison"
    ELSE IF Contains(text, <<"r", "e", "v", "i", "e", "w">>) THEN "review"
    ELSE "general"

NoDuplicate(words) ==
    \A i, j \in 1..Len(words) : words[i] = words[j] => i = j

\* C26 as stated: the keyword list of every query has at most 5 entries and
\* no token twice. Fails for "rust rust": _extract_keywords filters and cuts,
\* and never removes a repeated word.
C26_AsStated ==
    mOut # None =>
        /\ Len(mOut.result.keywords) <= 5
        /\ NoDuplicate(mOut.result.keywords)

WhatIsRust == <<"w", "h", "a", "t", " ", "i", "s", " ", "r", "u", "s", "t">>

\* C27 as stated: for "what is rust" the keywords hold no "is", and the
\* variations hold the normalized form, the quoted phrase and a variant
\* ending in " tutorial" or " guide", 3 at most and none twice. Fails: the
\* variations are the query, "what rust" and the quoted phrase; the cut at 3
\* drops both the tutorial and the guide variant.
C27_AsStated ==
    (mOut # None /\ mIn.query = WhatIsRust) =>
        LET variations == mOut.result.variations
            Has(v) == \E i \in 1..Len(variations) : variations[i] = v
        IN  /\ \A i \in 1..Len(mOut.result.keywords) :
                  mOut.result.keywords[i] # <<"i", "s">>
            /\ Has(mOut.result.normalized_query)
            /\ Has(<<"\"">> \o mOut.result.normalized_query \o <<"\"">>)
            /\ \/ Has(mOut.result.normalized_query
                      \o <<" ", "t", "u", "t", "o", "r", "i", "a", "l">>)
               \/ Has(mOut.result.normalized_query \o <<" ", "g", "u", "i", "d", "e">>)
            /\ Len(variations) <= 3
            /\ NoDuplicate(variations)

(* C28: after n calls of record_search total_searches is n and the search   *)
(* history holds the queries of the last min(n, 100) calls, in the order of *)
(* the calls: past 100 calls the oldest entries are gone and the counter    *)
(* still grows.                                                             *)
C28_BoundedHistory ==
    LET history == metrics.search_history
        kept == IF calls < HistoryMaxLen THEN calls ELSE HistoryMaxLen
    IN  /\ metrics.total_searches = calls
        /\ Len(history) = kept
        /\ \A i \in 1..kept : history[i].query = QueryAt(mIn, calls - kept + i)

\* 102 calls were made: the counter is 102, the history holds 100 entries and
\* starts with the query of the third call, which differs from the first's
C28_Witness ==
    /\ calls = 102
    /\ metrics.total_searches = 102
    /\ Len(metrics.search_history) = 100
    /\ metrics.search_history[1].query = QueryAt(mIn, 3)
    /\ QueryAt(mIn, 3) # QueryAt(mIn, 1)
    /\ metrics.search_history[100].query = QueryAt(mIn, 102)

(* C27: for "what is rust" the keywords are "what" and "rust", without      *)
(* "is", and the variations are, in this order, the normalized form, the    *)
(* keywords joined ("what rust") and the quoted phrase: three, all          *)
(* different, and none of them ends in " tutorial" or " guide".             *)
C27_WhatIsRustVariations ==
    (mOut # None /\ mIn.query = WhatIsRust) =>
        /\ mOut.result.normalized_query = WhatIsRust
        /\ mOut.result.keywords = << <<"w", "h", "a", "t">>, <<"r", "u", "s", "t">> >>
        /\ mOut.result.variations =
              << WhatIsRust,
                 <<"w", "h", "a", "t", " ", "r", "u", "s", "t">>,
                 <<"\"">> \o WhatIsRust \o <<"\"">> >>
        /\ NoDuplicate(mOut.result.variations)

\* "what is rust" was processed: a definition, with two keywords and three
\* variations
C27_Witness ==
    /\ mOut # None
    /\ mIn.query = WhatIsRust
    /\ mOut.result.intent = "definition"
    /\ Len(mOut.result.keywords) = 2
    /\ Len(mOut.result.variations) = 3

(* C29, as stated: every step that mutates the Metrics Recorder is made     *)
(* holding the lock of the component, and with queries running at once no   *)
(* update is lost: total_searches is the number of queries that entered     *)
(* execute_search and the history has min(that number, 100) entries.        *)
(* Fails at the first record_search: MetricsCollector has no lock.          *)
C29_AsStated ==
    /\ [](/\ metrics.total_searches = Cardinality(Entered)
          /\ Len(metrics.search_history) = Min(Cardinality(Entered), HistoryMaxLen))
    /\ [][metrics' # metrics => metrics_lock # None]_vars

\* whether a stage is named in a list of agents
Names(agents_used, stage) == \E i \in 1..Len(agents_used) : agents_used[i] = stage

(* C30, as stated: agents_used of the response execute_search builds names  *)
(* AnalysisAgent exactly when the Scorer/Ranker was called for the query    *)
(* and SynthesisAgent exactly when the Synthesizer was called. Fails for a  *)
(* query with analysis enabled whose retrieval found nothing: no stage ran  *)
(* after the retrieval and agents_used still names AnalysisAgent.           *)
C30_AsStated ==
    \A r \in Reqs :
        pc[r] = "completed" =>
            /\ Names(response[r].agent_metrics.agents_used, Analysis)
                  <=> CallsOf(r, Analysis) # {}
            /\ Names(response[r].agent_metrics.agents_used, Synthesis)
                  <=> CallsOf(r, Synthesis) # {}

(* C31, as stated: a request served from the cache gets a response that was *)
(* computed for a request with the same enable_analysis, include_synthesis  *)
(* and sources; a request that asked for no synthesis gets none. Fails: the *)
(* cache key is the query and max_results only.                             *)
C31_AsStated ==
    \A r \in Reqs :
        pc[r] = "served" =>
            /\ \E p \in Reqs \ {r} :
                  /\ pc[p] = "completed"
                  /\ KeyOf(p) = KeyOf(r)
                  /\ request[p].enable_analysis = request[r].enable_analysis
                  /\ request[p].include_synthesis = request[r].include_synthesis
                  /\ request[p].sources = request[r].sources
            /\ ~request[r].include_synthesis => response[r].synthesis = None

\* the queries inside execute_search
InFlight == {r \in Reqs : pc[r] \in {"normalizing", "retrieving", "gathering",
                                     "scoring", "synthesizing", "responding"}}

(* C32: whatever the interleaving of the queries, total_searches is         *)
(* successful_searches + failed_searches + the number of queries inside     *)
(* execute_search; a query that ends adds one to exactly one of the two     *)
(* outcome counters, successful when it completes and failed when it        *)
(* fails; so with no query inside, total = successful + failed.             *)
C32_TalliesConsistent ==
    /\ [](/\ orch.total_searches =
               orch.successful_searches + orch.failed_searches + Cardinality(InFlight)
          /\ orch.successful_searches = Cardinality({r \in Reqs : pc[r] = "completed"})
          /\ orch.failed_searches = Cardinality({r \in Reqs : pc[r] = "failed"})
          /\ InFlight = {} =>
                orch.total_searches = orch.successful_searches + orch.failed_searches)
    /\ [][\A r \in Reqs :
            /\ (pc[r] # "completed" /\ pc'[r] = "completed") =>
                  /\ orch'.successful_searches = orch.successful_searches + 1
                  /\ orch'.failed_searches = orch.failed_searches
            /\ (pc[r] # "failed" /\ pc'[r] = "failed") =>
                  /\ orch'.failed_searches = orch.failed_searches + 1
                  /\ orch'.successful_searches = orch.successful_searches]_vars

\* one query failed while the other, entered before it, still waits for its
\* sources: 2 = 0 + 1 + 1
C32_Witness ==
    /\ pc[1] = "gathering"
    /\ pc[2] = "failed"
    /\ orch.total_searches = 2
    /\ orch.successful_searches = 0
    /\ orch.failed_searches = 1

(* C33: the step in which a query fails leaves the cache as it was, store   *)
(* and counters; every entry of the cache was stored by a query that        *)
(* completed; and a request is served from the cache only if a query for    *)
(* its key completed, so a request that follows a failed one and no         *)
(* completed one runs the pipeline again.                                   *)
C33_FailureNotCached ==
    /\ [](/\ \A k \in DOMAIN cache : done[k] # None /\ cache[k].value.kind = "response"
          /\ \A k \in Keys :
                done[k] # None => \E p \in Reqs : pc[p] = "completed" /\ KeyOf(p) = k
          /\ \A r \in Reqs :
                pc[r] = "served" =>
                    \E p \in Reqs : pc[p] = "completed" /\ KeyOf(p) = KeyOf(r))
    /\ [][\A r \in Reqs :
            (pc[r] # "failed" /\ pc'[r] = "failed") =>
                /\ cache' = cache
                /\ hits' = hits
                /\ misses' = misses
                /\ response'[r] = Error500]_vars

\* the first request failed; the second, for the same key and with the same
\* flags, was issued after that, missed the cache and is at the start of
\* execute_search
C33_Witness ==
    /\ pc[1] = "failed"
    /\ pc[2] = "received"
    /\ request[2] = request[1]
    /\ misses = 2
    /\ hits = 0
    /\ DOMAIN cache = {}

\* the queries between the start_task and the end_task of a stage: only the
\* retrieval is left at an await before its end_task
Inside(stage) ==
    IF stage = SearchExecutor THEN {r \in Reqs : pc[r] = "gathering"} ELSE {}

\* the executions of a stage that returned, over all queries
Returns(stage) ==
    {<<r, i>> \in Reqs \X (1..8) :
        i <= Len(trace[r]) /\ trace[r][i] = Event("return", stage)}

(* C34, as stated: while a query is inside the stage of an agent the status *)
(* of that agent is 'working', and tasks_completed of every agent is the    *)
(* number of its executions that returned. Fails with two queries in the    *)
(* retrieval at once: the end_task of the first sets the status of the      *)
(* shared agent to 'ready' while the second is still inside.                *)
C34_AsStated ==
    \A a \in Agents :
        /\ Inside(a) # {} => agent[a].status = "working"
        /\ agent[a].tasks_completed = Cardinality(Returns(a))

\* a step in which request r is answered from the cache
ServedHit(r) == pc[r] = "idle" /\ pc'[r] = "served"

(* C35, as stated: a step that serves a cache hit changes nothing but the   *)
(* hit counter: no stage runs, the counters of the orchestrator, the        *)
(* metrics and tasks_completed of every agent are unchanged, and the stored *)
(* entry has the value and the expiry it had before. Fails at the first hit *)
(* of an entry: the handler sets cached and cache_hit on the stored record. *)
C35_AsStated ==
    [][\A r \in Reqs : ServedHit(r) =>
        LET key == CacheKeyOf(request'[r].query, request'[r].max_results)
        IN  /\ trace' = trace
            /\ orch' = orch
            /\ metrics' = metrics
            /\ \A a \in Agents :
                   agent'[a].tasks_completed = agent[a].tasks_completed
            /\ misses' = misses
            /\ DOMAIN cache' = DOMAIN cache
            /\ cache'[key].value = cache[key].value
            /\ cache'[key].expires_at = cache[key].expires_at]_vars

\* the last n entries of a list, in the order of the list
LastN(list, n) ==
    SubSeq(list, Len(list) - Min(n, Len(list)) + 1, Len(list))

(* C36, as stated: get_search_history(limit) returns at most limit entries, *)
(* the most recent ones in the order they were recorded, for every          *)
(* limit >= 0. Fails for limit = 0 on a history that is not empty: the      *)
(* whole history is returned.                                               *)
C36_AsStated ==
    (mOut.kind = "history" /\ mOut.limit >= 0) =>
        /\ Len(mOut.searches) <= mOut.limit
        /\ mOut.searches = LastN(metrics.search_history, mOut.limit)

\* a text with no whitespace at either end and no two spaces in a row
Canonical(text) ==
    /\ text # <<>> => text[1] \notin Whitespace /\ text[Len(text)] \notin Whitespace
    /\ \A i \in 1..(Len(text) - 1) : ~(text[i] = " " /\ text[i + 1] = " ")

(* C37, as stated: the normalized query has no whitespace at either end and *)
(* no run of two or more spaces, and normalizing it again returns it        *)
(* unchanged. Fails when a special character is the last word of the query, *)
(* or stands alone between two words: the characters are removed after the  *)
(* text was stripped and its whitespace collapsed.                          *)
C37_AsStated ==
    mOut.kind = "processed" =>
        /\ Canonical(mOut.result.normalized_query)
        /\ _normalize_query(mOut.result.normalized_query)
               = mOut.result.normalized_query

====
